---- MODULE Spec2Model ----
(***************************************************************************)
(* Model of the diagnostic parsing and deduplication engine of             *)
(* run-clang-tidy.py (clang-tidy/tool): the fingerprint DiagEssence, the   *)
(* record Diagnostic, the set Deduplication and the line-oriented parser   *)
(* ParseClangTidyDiagnostics.                                              *)
(*                                                                         *)
(* Text is modelled as a sequence of one-character strings, so that the    *)
(* header regular expression, rstrip(), splitlines(), int() and str() are  *)
(* computed character by character.  None is the empty tuple and an        *)
(* object reference that may be None is a tuple of length at most one.     *)
(***************************************************************************)
EXTENDS Integers, Sequences, FiniteSets, TLC

\* ------------------------------------------------------------------------
\* Bounds of the model
\* ------------------------------------------------------------------------

\* Size of the range of str.__hash__ in the model (a machine word in Python).
StrHashMod == 64

\* Largest number of lines of a text given to parse_string, and of a block
\* (a header and its context lines) given to it twice back to back.
MaxLines == 2

\* Largest number of parse_string calls made on one parser instance.
MaxCalls == 2

\* Largest number of insert_and_query calls made on one Deduplication.
MaxInserts == 3

\* Lines given to a ParseBBOutput, over all its calls.
MaxBBLines == 6

\* Names a ParseBBOutput collects as enabled checks.
MaxChecks == 2

\* Lines of one aggregate log, and the check names of its preamble.
MaxLogLines == 8
MaxLogChecks == 2

\* Largest number of register_finding calls made on one Findings.
MaxRegisters == 3

\* Largest number of worker threads main starts (max_task), and of files in
\* the compilation database.
MaxWorkers == 2
MaxFiles == 3

\* ------------------------------------------------------------------------
\* Text helpers
\* ------------------------------------------------------------------------

None == <<>>

Max(S) == CHOOSE x \in S : \A y \in S : y <= x

Digits == <<"0", "1", "2", "3", "4", "5", "6", "7", "8", "9">>

Alphabet == Digits \o <<"a", "b", "m", "n", ":", " ", "^", "\n", "e", "r",
                        "o", "w", "i", "g", "t", "[", "]", "c", "d", "s",
                        "S", "u", "p">>

IsDigit(c) == \E i \in 1..Len(Digits) : Digits[i] = c

DigitValue(c) == (CHOOSE i \in 1..Len(Digits) : Digits[i] = c) - 1

CharCode(c) == CHOOSE i \in 1..Len(Alphabet) : Alphabet[i] = c

IsSpace(c) == c \in {" ", "\n"}

\* str.rstrip(): drop the trailing whitespace.
RECURSIVE RStrip(_)
RStrip(s) ==
    IF s # <<>> /\ IsSpace(s[Len(s)]) THEN RStrip(SubSeq(s, 1, Len(s) - 1))
    ELSE s

\* str.splitlines(): cut at every line break; a final line break opens no
\* further (empty) line.
RECURSIVE SplitLines(_)
SplitLines(s) ==
    IF s = <<>> THEN <<>>
    ELSE LET brk == {i \in 1..Len(s) : s[i] = "\n"}
         IN IF brk = {} THEN <<s>>
            ELSE LET i == CHOOSE k \in brk : \A j \in brk : k <= j
                 IN <<SubSeq(s, 1, i - 1)>> \o SplitLines(SubSeq(s, i + 1, Len(s)))

\* "\n".join(lines)
RECURSIVE JoinLines(_)
JoinLines(ls) ==
    IF ls = <<>> THEN <<>>
    ELSE IF Len(ls) = 1 THEN ls[1]
    ELSE ls[1] \o <<"\n">> \o JoinLines(Tail(ls))

\* int(text) of a string of decimal digits.
RECURSIVE ToInt(_)
ToInt(ds) ==
    IF ds = <<>> THEN 0
    ELSE 10 * ToInt(SubSeq(ds, 1, Len(ds) - 1)) + DigitValue(ds[Len(ds)])

\* str(n) of a non-negative integer.
RECURSIVE IntToStr(_)
IntToStr(n) ==
    IF n < 10 THEN <<Digits[n + 1]>>
    ELSE IntToStr(n \div 10) \o <<Digits[(n % 10) + 1]>>

\* str.__hash__(): a fixed many-to-one map from texts to a bounded range of
\* integers; the empty text hashes to 0.
RECURSIVE StrHash(_)
StrHash(s) ==
    IF s = <<>> THEN 0
    ELSE (StrHash(SubSeq(s, 1, Len(s) - 1)) + CharCode(s[Len(s)])) % StrHashMod

\* int.__hash__(): reduction modulo the prime hash modulus of the platform
\* (2^61 - 1 on 64-bit builds, 2^31 - 1 on 32-bit builds).
IntHash(x) == x % 2147483647

\* ------------------------------------------------------------------------
\* class DiagEssence
\* ------------------------------------------------------------------------

\* Variant of DiagEssence.__init__ whose hash also covers the message.
DiagEssenceTextHash(path, line, column, diag, additional_info) ==
    [path       |-> StrHash(path),
     line       |-> line,
     column     |-> column,
     hash       |-> IntHash(StrHash(path) + line + column + StrHash(diag)
                            + StrHash(additional_info)),
     diag       |-> StrHash(diag),
     additional |-> StrHash(additional_info)]

\* Variant of DiagEssence.__init__ whose hash leaves the column out.
DiagEssenceNoColumnHash(path, line, column, diag, additional_info) ==
    [path       |-> StrHash(path),
     line       |-> line,
     column     |-> column,
     hash       |-> IntHash(StrHash(path) + line),
     diag       |-> StrHash(diag),
     additional |-> StrHash(additional_info)]

\* DiagEssence.__init__
DiagEssence(path, line, column, diag, additional_info) ==
    [path       |-> StrHash(path),
     line       |-> line,
     column     |-> column,
     hash       |-> IntHash(StrHash(path) + line + column),
     diag       |-> StrHash(diag),
     additional |-> StrHash(additional_info)]

\* DiagEssence.__hash__
EssenceHash(self) == self.hash

\* Variant of DiagEssence.__eq__ that leaves the path out.
EssenceEqNoPath(self, other) ==
    IF self.line # other.line THEN FALSE
    ELSE IF self.column # other.column THEN FALSE
    ELSE IF self.diag # other.diag THEN FALSE
    ELSE IF self.additional # other.additional THEN FALSE
    ELSE TRUE

\* Variant of DiagEssence.__eq__ that leaves the line out.
EssenceEqNoLine(self, other) ==
    IF self.column # other.column THEN FALSE
    ELSE IF self.path # other.path THEN FALSE
    ELSE IF self.diag # other.diag THEN FALSE
    ELSE IF self.additional # other.additional THEN FALSE
    ELSE TRUE

\* Variant of DiagEssence.__eq__ that leaves the column out.
EssenceEqNoColumn(self, other) ==
    IF self.line # other.line THEN FALSE
    ELSE IF self.path # other.path THEN FALSE
    ELSE IF self.diag # other.diag THEN FALSE
    ELSE IF self.additional # other.additional THEN FALSE
    ELSE TRUE

\* DiagEssence.__eq__
EssenceEq(self, other) ==
    IF self.line # other.line THEN FALSE
    ELSE IF self.column # other.column THEN FALSE
    ELSE IF self.path # other.path THEN FALSE
    ELSE IF self.diag # other.diag THEN FALSE
    ELSE IF self.additional # other.additional THEN FALSE
    ELSE TRUE

\* ------------------------------------------------------------------------
\* class Diagnostic
\* ------------------------------------------------------------------------

\* Diagnostic.__init__
Diagnostic(path, line, column, diag) ==
    [path |-> path, line |-> line, column |-> column, diag |-> diag,
     additional |-> <<>>]

\* Diagnostic.add_additional_line
add_additional_line(self, line) ==
    [self EXCEPT !.additional = @ \o <<"\n">> \o line]

\* Diagnostic.add_additional_line of utility.py
add_additional_line_utility(self, line) ==
    [self EXCEPT !.additional = @ \o line]

\* Diagnostic.get_essence
get_essence(self) ==
    DiagEssence(self.path, self.line, self.column, self.diag, self.additional)

\* Diagnostic.__str__
DiagStr(self) ==
    self.path \o <<":">> \o IntToStr(self.line) \o <<":">>
        \o IntToStr(self.column) \o <<":", " ">> \o self.diag
        \o self.additional

\* ------------------------------------------------------------------------
\* class Deduplication
\* ------------------------------------------------------------------------

\* Variant of the membership test that trusts __hash__ alone.
SetContainsByHash(set, diag) ==
    \E e \in set : EssenceHash(e) = EssenceHash(diag)

\* `diag in self._set`: the built-in set looks the bucket up by __hash__ and
\* then compares with __eq__.
SetContains(set, diag) ==
    \E e \in set : EssenceHash(e) = EssenceHash(diag) /\ EssenceEq(e, diag)

\* Deduplication.insert_and_query: the returned value and the new set.
insert_and_query(set, diag) ==
    IF ~SetContains(set, diag)
    THEN [ret |-> TRUE, set |-> set \cup {diag}]
    ELSE [ret |-> FALSE, set |-> set]

\* ------------------------------------------------------------------------
\* The header pattern  ^(.+):(\d+):(\d+): (error|warning): (.*)$
\* ------------------------------------------------------------------------

\* The literal lit stands in s at position k.
LitAt(s, k, lit) ==
    /\ k >= 1
    /\ k + Len(lit) - 1 <= Len(s)
    /\ SubSeq(s, k, k + Len(lit) - 1) = lit

\* Length of the longest run of digits of s that starts at position k (\d+
\* is greedy and what follows it is not a digit, so it takes the whole run).
DigitRun(s, k) ==
    Max({0} \cup {n \in 1..(Len(s) - k + 1) :
                     \A j \in k..(k + n - 1) : IsDigit(s[j])})

\* Variant of the severity group that takes note as well.
SeverityAtWithNote(s, k) ==
    IF LitAt(s, k, <<"e", "r", "r", "o", "r">>)
    THEN <<"e", "r", "r", "o", "r">>
    ELSE IF LitAt(s, k, <<"w", "a", "r", "n", "i", "n", "g">>)
    THEN <<"w", "a", "r", "n", "i", "n", "g">>
    ELSE IF LitAt(s, k, <<"n", "o", "t", "e">>)
    THEN <<"n", "o", "t", "e">>
    ELSE None

\* (error|warning) at position k, None when neither stands there.
SeverityAt(s, k) ==
    IF LitAt(s, k, <<"e", "r", "r", "o", "r">>)
    THEN <<"e", "r", "r", "o", "r">>
    ELSE IF LitAt(s, k, <<"w", "a", "r", "n", "i", "n", "g">>)
    THEN <<"w", "a", "r", "n", "i", "n", "g">>
    ELSE None

\* Positions of the pieces of s when group 1 is s[1..i].
HeaderLayout(s, i) ==
    LET n1  == DigitRun(s, i + 2)
        c2  == i + 2 + n1
        n2  == DigitRun(s, c2 + 1)
        c3  == c2 + 1 + n2
        sev == SeverityAt(s, c3 + 2)
        c4  == c3 + 2 + Len(sev)
    IN [n1 |-> n1, c2 |-> c2, n2 |-> n2, c3 |-> c3, sev |-> sev, c4 |-> c4]

\* The rest of the pattern matches s after a group 1 of length i.
HeaderMatchesAt(s, i) ==
    LET h == HeaderLayout(s, i)
    IN /\ i >= 1
       /\ LitAt(s, i + 1, <<":">>)
       /\ h.n1 >= 1
       /\ LitAt(s, h.c2, <<":">>)
       /\ h.n2 >= 1
       /\ LitAt(s, h.c3, <<":", " ">>)
       /\ h.sev # None
       /\ LitAt(s, h.c4, <<":", " ">>)

\* self._diag_re.match(line).groups(), None when the line does not match.
\* Group 1 is greedy: it is the longest one the rest still matches after.
\* A group is <<text>>, or None had it not taken part in the match.
DiagReMatch(s) ==
    LET cands == {i \in 1..Len(s) : HeaderMatchesAt(s, i)}
    IN IF cands = {} THEN None
       ELSE LET i == Max(cands)
                h == HeaderLayout(s, i)
            IN <<<<SubSeq(s, 1, i)>>,
                 <<SubSeq(s, i + 2, i + 1 + h.n1)>>,
                 <<SubSeq(s, h.c2 + 1, h.c2 + h.n2)>>,
                 <<h.sev>>,
                 <<SubSeq(s, h.c4 + 2, Len(s))>>>>

\* _is_valid_diag_match
is_valid_diag_match(match_groups) ==
    \A i \in 1..Len(match_groups) : match_groups[i] # None

\* Variant of _diag_from_match that takes line and column the wrong way round.
diag_from_match_swapped(match_groups) ==
    Diagnostic(match_groups[1][1], ToInt(match_groups[3][1]),
               ToInt(match_groups[2][1]),
               match_groups[4][1] \o <<":", " ">> \o match_groups[5][1])

\* _diag_from_match
diag_from_match(match_groups) ==
    Diagnostic(match_groups[1][1], ToInt(match_groups[2][1]),
               ToInt(match_groups[3][1]),
               match_groups[4][1] \o <<":", " ">> \o match_groups[5][1])

\* ------------------------------------------------------------------------
\* class ParseClangTidyDiagnostics: the methods as functions of the parser's
\* fields st = [current_diag, dedup, uniq_diags].
\* ------------------------------------------------------------------------

\* ParseClangTidyDiagnostics.__init__
NewParser == [current_diag |-> None, dedup |-> {}, uniq_diags |-> <<>>]

\* Variant of _register_diag that stores the diagnostic whatever the set says.
register_diag_ungated(st) ==
    IF st.current_diag # None
    THEN LET r == insert_and_query(st.dedup, get_essence(st.current_diag[1]))
         IN [st EXCEPT !.dedup = r.set,
                       !.uniq_diags = Append(@, st.current_diag[1])]
    ELSE st

\* ParseClangTidyDiagnostics._register_diag
register_diag(st) ==
    IF st.current_diag # None
    THEN LET r == insert_and_query(st.dedup, get_essence(st.current_diag[1]))
         IN [st EXCEPT !.dedup = r.set,
                       !.uniq_diags = IF r.ret
                                      THEN Append(@, st.current_diag[1])
                                      ELSE @]
    ELSE st

\* Variant of _handle_new_diag that replaces the diagnostic in flight before
\* it registers.
handle_new_diag_late(st, match_groups) ==
    register_diag([st EXCEPT !.current_diag = <<diag_from_match(match_groups)>>])

\* ParseClangTidyDiagnostics._handle_new_diag
handle_new_diag(st, match_groups) ==
    [register_diag(st) EXCEPT !.current_diag = <<diag_from_match(match_groups)>>]

\* Variant of _parse_line in which a line that is no header closes the
\* diagnostic in flight.
parse_line_closing(st, line) ==
    LET match == DiagReMatch(line)
    IN IF match # None /\ is_valid_diag_match(match)
       THEN handle_new_diag(st, match)
       ELSE IF match = None /\ st.current_diag # None
       THEN [register_diag(st) EXCEPT !.current_diag = None]
       ELSE st

\* Variant of _parse_line that takes only indented lines as additional
\* lines and drops the others.
parse_line_filtering(st, line) ==
    LET match == DiagReMatch(line)
    IN IF match # None /\ is_valid_diag_match(match)
       THEN handle_new_diag(st, match)
       ELSE IF /\ match = None /\ st.current_diag # None
               /\ line # <<>> /\ IsSpace(line[1])
       THEN [st EXCEPT !.current_diag = <<add_additional_line(@[1], line)>>]
       ELSE st

\* ParseClangTidyDiagnostics._parse_line
parse_line(st, line) ==
    LET match == DiagReMatch(line)
    IN IF match # None /\ is_valid_diag_match(match)
       THEN handle_new_diag(st, match)
       ELSE IF match = None /\ st.current_diag # None
       THEN [st EXCEPT !.current_diag = <<add_additional_line(@[1], line)>>]
       ELSE st

\* Variant of reset_parser that also empties the deduplication.
reset_parser_all(st) ==
    [st EXCEPT !.current_diag = None, !.uniq_diags = <<>>, !.dedup = {}]

\* Variant of reset_parser that keeps the list of diagnostics.
reset_parser_keep_list(st) == [st EXCEPT !.current_diag = None]

\* ParseClangTidyDiagnostics.reset_parser
reset_parser(st) == [st EXCEPT !.current_diag = None, !.uniq_diags = <<>>]

\* ------------------------------------------------------------------------
\* utility.py: the texts and patterns of ParseBBOutput
\* ------------------------------------------------------------------------

\* str.strip(): leading and trailing whitespace removed.
RECURSIVE LStrip(_)
LStrip(s) ==
    IF s # <<>> /\ IsSpace(Head(s)) THEN LStrip(Tail(s)) ELSE s

Strip(s) == LStrip(RStrip(s))

\* str.startswith
StartsWith(s, lit) == LitAt(s, 1, lit)

EnabledChecksText ==
    <<"E", "n", "a", "b", "l", "e", "d", " ", "c", "h", "e", "c", "k", "s",
      ":">>

ApplyingFixesText ==
    <<"A", "p", "p", "l", "y", "i", "n", "g", " ", "f", "i", "x", "e", "s",
      " ", ".", ".", ".">>

SuppressedText ==
    <<"S", "u", "p", "p", "r", "e", "s", "s", "e", "d">>

UseHeaderFilterText ==
    <<"U", "s", "e", " ", "-", "h", "e", "a", "d", "e", "r", "-", "f", "i",
      "l", "t", "e", "r">>

ClangApplyText ==
    <<"c", "l", "a", "n", "g", "-", "a", "p", "p", "l", "y">>

WarningsText ==
    <<" ", "w", "a", "r", "n", "i", "n", "g", "s">>

Warning == <<"w", "a", "r", "n", "i", "n", "g">>

Error == <<"e", "r", "r", "o", "r">>

Note == <<"n", "o", "t", "e">>

\* (error|warning|note) at position k, None when none of them stands there.
BBSeverityAt(s, k) ==
    IF LitAt(s, k, Error) THEN Error
    ELSE IF LitAt(s, k, Warning) THEN Warning
    ELSE IF LitAt(s, k, Note) THEN Note
    ELSE None

\* Length of the longest run of characters other than "[" of s that starts
\* at position k.
NoBracketRun(s, k) ==
    Max({0} \cup {n \in 1..(Len(s) - k + 1) :
                     \A j \in k..(k + n - 1) : s[j] # "["})

\* (\[([^,]+).*\])$ matches s from position q to its end.
TagMatchesAt(s, q) ==
    /\ LitAt(s, q, <<"[">>)
    /\ Len(s) >= q + 2
    /\ s[Len(s)] = "]"
    /\ s[q + 1] # ","

\* Group 5 of a tag that begins at position q: [^,]+ is greedy, it ends
\* before the first comma, or before the closing bracket without one.
TagCategory(s, q) ==
    LET commas == {c \in (q + 1)..Len(s) : s[c] = ","}
        last_  == IF commas = {} THEN Len(s) - 1
                  ELSE (CHOOSE c \in commas : \A d \in commas : c <= d) - 1
    IN SubSeq(s, q + 1, last_)

\* Positions of the pieces of s when group 1 is s[1..i].
BBLayout(s, i) ==
    LET sev == BBSeverityAt(s, i + 3)
        p   == i + 3 + Len(sev) + 2
        r   == NoBracketRun(s, p)
    IN [sev |-> sev, p |-> p, r |-> r, q |-> p + r]

\* The rest of the pattern matches s after a group 1 of length i.  Group 3
\* is greedy and cannot pass a "[": it takes the whole run, after which the
\* text ends or the tag stands.
BBMatchesAt(s, i) ==
    LET h == BBLayout(s, i)
    IN /\ i >= 1
       /\ LitAt(s, i + 1, <<":", " ">>)
       /\ h.sev # None
       /\ LitAt(s, h.p - 2, <<":", " ">>)
       /\ h.r >= 1
       /\ (h.q = Len(s) + 1 \/ TagMatchesAt(s, h.q))

\* The five groups of s when group 1 is s[1..i] and h is the layout of the
\* rest.  A group is <<text>>, or None had it not taken part in the match.
DiagnosticRegexGroups(s, i, h) ==
    <<<<SubSeq(s, 1, i)>>,
      <<h.sev>>,
      <<SubSeq(s, h.p, h.q - 1)>>,
      IF h.q <= Len(s) THEN <<SubSeq(s, h.q, Len(s))>> ELSE None,
      IF h.q <= Len(s) THEN <<TagCategory(s, h.q)>> ELSE None>>

\* Group 1 is greedy: of the lengths the rest matches after it takes the
\* longest.
DiagnosticRegexLongest(s, cands) ==
    IF cands = {} THEN None
    ELSE DiagnosticRegexGroups(s, Max(cands), BBLayout(s, Max(cands)))

\* self.__diagnostic_regex.match(line).groups(), None when the line does not
\* match:  ^(.+): (error|warning|note): ([^\[]+) ?(\[([^,]+).*\])?$
DiagnosticRegexMatch(s) ==
    DiagnosticRegexLongest(s, {i \in 1..Len(s) : BBMatchesAt(s, i)})

\* self.__known_ct_noise_output.match(line):
\* ^(Suppressed|Use -header-filter|clang-apply|\d+ warnings|$)
KnownNoiseMatch(s) ==
    \/ StartsWith(s, SuppressedText)
    \/ StartsWith(s, UseHeaderFilterText)
    \/ StartsWith(s, ClangApplyText)
    \/ DigitRun(s, 1) >= 1 /\ LitAt(s, DigitRun(s, 1) + 1, WarningsText)
    \/ s = <<>>

\* Truth value of a group: neither None nor the empty text.
Truthy(g) == g # None /\ g[1] # <<>>

\* ------------------------------------------------------------------------
\* CheckDiagnostic, FindingDiagnostic and Findings, the classes ParseBBOutput
\* builds its result of
\* ------------------------------------------------------------------------

\* CheckDiagnostic(severity, location, diagnostic, name); name is None for a
\* diagnostic without a check name.
CheckDiagnostic(severity, location, diagnostic, name) ==
    [severity |-> severity, location |-> location, diagnostic |-> diagnostic,
     name |-> name, code_hints |-> <<>>]

\* CheckDiagnostic.add_code_hints: every hint ends its own line.
add_code_hints(self, line) ==
    [self EXCEPT !.code_hints = @ \o line \o <<"\n">>]

\* CheckDiagnostic.get_description:  location: severity: text [check-name]
get_description(self) ==
    self.location \o <<":", " ">> \o self.severity \o <<":", " ">>
        \o self.diagnostic
        \o (IF self.name # None
            THEN <<" ", "[">> \o self.name[1] \o <<"]">>
            ELSE <<>>)

\* CheckDiagnostic.get_full_text: the description, then the hint lines.
get_full_text(self) == get_description(self) \o <<"\n">> \o self.code_hints

\* FindingDiagnostic(diag): the diagnostics of one finding, in order.
FindingDiagnostic(diag) == <<diag>>

\* FindingDiagnostic.add_diagnostic
add_diagnostic(self, diag) == Append(self, diag)

\* FindingDiagnostic.get_diagnostics
get_diagnostics(self) == self

\* The text two findings are compared by: the full texts of the diagnostics,
\* in order.
RECURSIVE FindingText(_)
FindingText(self) ==
    IF self = <<>> THEN <<>>
    ELSE get_full_text(Head(self)) \o FindingText(Tail(self))

\* Variant of the equality of two findings that compares the descriptions
\* of their first diagnostics.
FindingEqByFirst(self, other) ==
    get_description(Head(self)) = get_description(Head(other))

\* FindingDiagnostic.__eq__
FindingEq(self, other) == FindingText(self) = FindingText(other)

\* Findings(): a map from check names to a total count and the set of the
\* unique findings.
NewFindings == [check \in {} |-> [total |-> 0, unique |-> {}]]

\* Variant of register_finding that counts a finding only when it is new.
register_finding_once(self, check, finding) ==
    LET old == IF check \in DOMAIN self THEN self[check]
               ELSE [total |-> 0, unique |-> {}]
        seen == \E f \in old.unique : FindingEq(f, finding)
        new == [total  |-> IF seen THEN old.total ELSE old.total + 1,
                unique |-> IF seen THEN old.unique
                           ELSE old.unique \cup {finding}]
    IN [c \in DOMAIN self \cup {check} |-> IF c = check THEN new ELSE self[c]]

\* Variant of register_finding that only counts.
register_finding_counts_only(self, check, finding) ==
    LET old == IF check \in DOMAIN self THEN self[check]
               ELSE [total |-> 0, unique |-> {}]
    IN [c \in DOMAIN self \cup {check} |->
           IF c = check THEN [old EXCEPT !.total = @ + 1] ELSE self[c]]

\* Findings.register_finding
register_finding(self, check, finding) ==
    LET old == IF check \in DOMAIN self THEN self[check]
               ELSE [total |-> 0, unique |-> {}]
        new == [total  |-> old.total + 1,
                unique |-> IF \E f \in old.unique : FindingEq(f, finding)
                           THEN old.unique
                           ELSE old.unique \cup {finding}]
    IN [c \in DOMAIN self \cup {check} |-> IF c = check THEN new ELSE self[c]]

\* Findings.finding_checks
finding_checks(self) == DOMAIN self

\* Findings.total_finding_count(check)
total_finding_count(self, check) ==
    IF check \in DOMAIN self THEN self[check].total ELSE 0

\* Findings.unique_finding_count(check)
unique_finding_count(self, check) ==
    IF check \in DOMAIN self THEN Cardinality(self[check].unique) ELSE 0

\* The sum of the total counts of the given checks.
RECURSIVE TotalOver(_, _)
TotalOver(self, checks) ==
    IF checks = {} THEN 0
    ELSE LET c == CHOOSE x \in checks : TRUE
         IN self[c].total + TotalOver(self, checks \ {c})

\* The sum of the unique counts of the given checks.
RECURSIVE UniqueOver(_, _)
UniqueOver(self, checks) ==
    IF checks = {} THEN 0
    ELSE LET c == CHOOSE x \in checks : TRUE
         IN Cardinality(self[c].unique) + UniqueOver(self, checks \ {c})

\* Findings.total_finding_count(): no name given, the sum over all checks.
total_finding_count_all(self) == TotalOver(self, DOMAIN self)

\* Findings.unique_finding_count(): no name given, the sum over all checks.
unique_finding_count_all(self) == UniqueOver(self, DOMAIN self)

\* The characters of the texts, in the order of their code points.
CodePoints ==
    <<"\n", " ">> \o Digits
        \o <<":", "[", "]", "^", "a", "b", "c", "d", "e", "g", "i", "m", "n",
             "o", "r", "t", "w">>

CharOrd(c) == CHOOSE i \in 1..Len(CodePoints) : CodePoints[i] = c

\* str.__lt__: the order of the dictionary on the code points.
RECURSIVE TextLess(_, _)
TextLess(s, t) ==
    IF t = <<>> THEN FALSE
    ELSE IF s = <<>> THEN TRUE
    ELSE IF Head(s) = Head(t) THEN TextLess(Tail(s), Tail(t))
    ELSE CharOrd(Head(s)) < CharOrd(Head(t))

\* Variant of the order of two findings that compares the number of their
\* diagnostics first.
FindingLessByLength(self, other) ==
    \/ Len(self) < Len(other)
    \/ Len(self) = Len(other) /\ TextLess(FindingText(self), FindingText(other))

\* FindingDiagnostic.__lt__
FindingLess(self, other) == TextLess(FindingText(self), FindingText(other))

\* FindingDiagnostic.__hash__
FindingHash(self) == StrHash(FindingText(self))

\* sorted(findings): the least finding first.
RECURSIVE SortedFindings(_)
SortedFindings(findings) ==
    IF findings = {} THEN <<>>
    ELSE LET least == CHOOSE f \in findings :
                         \A g \in findings \ {f} : ~FindingLess(g, f)
         IN <<least>> \o SortedFindings(findings \ {least})

\* Findings.findings_for_check
findings_for_check(self, check) ==
    IF check \in DOMAIN self THEN SortedFindings(self[check].unique) ELSE <<>>

\* ------------------------------------------------------------------------
\* class ParseBBOutput: parse_line as a function of the parser's fields
\* st = [expect_enabled_checks, expect_check_name, expect_warnings,
\*       current_finding_check, current_finding, enabled_checks,
\*       all_findings].  The result is the new fields, the returned value and
\* whether an assertion failed.
\* ------------------------------------------------------------------------

\* ParseBBOutput.__init__
NewParseBBOutput ==
    [expect_enabled_checks |-> TRUE,
     expect_check_name     |-> FALSE,
     expect_warnings       |-> FALSE,
     current_finding_check |-> None,
     current_finding       |-> None,
     enabled_checks        |-> <<>>,
     all_findings          |-> NewFindings]

Returned(st, ret) == [st |-> st, ret |-> ret, raised |-> FALSE]

Raised(st) == [st |-> st, ret |-> FALSE, raised |-> TRUE]

\* The registration of the current finding, which both the tagged branch and
\* the noise branch make.
RegisterCurrent(st) ==
    [st EXCEPT !.all_findings = register_finding(@, st.current_finding_check[1],
                                                 st.current_finding[1]),
               !.current_finding_check = None,
               !.current_finding = None]

\* Variant of the tagged branch that registers the current finding under the
\* category of the new line.
TaggedDiagnosticNewName(st, severity, location, msg, category) ==
    LET diag == CheckDiagnostic(severity[1], location[1], msg[1], category)
        reg  == IF st.current_finding # None
                THEN [st EXCEPT !.all_findings =
                         register_finding(@, category[1], st.current_finding[1])]
                ELSE st
    IN Returned([reg EXCEPT !.current_finding = <<FindingDiagnostic(diag)>>,
                            !.current_finding_check = category],
                TRUE)

\* Variant of the branch of a line with a category tag that starts the new
\* finding without registering the one that accumulates.
TaggedDiagnosticDropsPrevious(st, severity, location, msg, category) ==
    IF ~Truthy(category) THEN Raised(st)
    ELSE Returned([st EXCEPT
                     !.current_finding =
                        <<FindingDiagnostic(
                            CheckDiagnostic(severity[1], location[1], msg[1],
                                            category))>>,
                     !.current_finding_check = category],
                  TRUE)

\* The branch of a line with a category tag.  The five groups were unpacked
\* as (severity, location, msg, category_tag, category): the variable
\* severity holds group 1 and location holds group 2.
TaggedDiagnostic(st, severity, location, msg, category) ==
    IF ~Truthy(category) THEN Raised(st)
    ELSE
    LET diag == CheckDiagnostic(severity[1], location[1], msg[1], category)
    IN IF st.current_finding # None /\ ~Truthy(st.current_finding_check)
       THEN Raised(st)
       ELSE LET reg == IF st.current_finding # None THEN RegisterCurrent(st)
                       ELSE st
            IN Returned([reg EXCEPT
                           !.current_finding = <<FindingDiagnostic(diag)>>,
                           !.current_finding_check = category],
                        TRUE)

\* Variant of the branch without a tag that starts a finding of its own.
NoteDiagnosticStartsNew(st, severity, location, msg) ==
    LET diag == CheckDiagnostic(severity[1], location[1], msg[1], None)
    IN Returned([st EXCEPT !.current_finding = <<FindingDiagnostic(diag)>>],
                TRUE)

\* The branch of a line without a category tag.
NoteDiagnostic(st, severity, location, msg) ==
    IF st.current_finding # None
    THEN LET diag == CheckDiagnostic(severity[1], location[1], msg[1], None)
         IN Returned([st EXCEPT !.current_finding =
                                    <<add_diagnostic(@[1], diag)>>],
                     TRUE)
    ELSE Returned(st, TRUE)

\* Variant of the noise branch that registers whether or not a finding
\* accumulates.
KnownNoiseUnguarded(st) ==
    Returned([st EXCEPT !.all_findings =
                            register_finding(@, st.current_finding_check,
                                             st.current_finding),
                        !.current_finding_check = None,
                        !.current_finding = None],
             TRUE)

\* Variant of the noise branch that registers and keeps the accumulator.
KnownNoiseKeeps(st) ==
    IF st.current_finding # None
    THEN Returned([st EXCEPT !.all_findings =
                      register_finding(@, st.current_finding_check[1],
                                       st.current_finding[1])],
                  TRUE)
    ELSE Returned(st, TRUE)

\* Variant of the noise branch that drops the finding that accumulates.
KnownNoiseDrops(st) ==
    Returned([st EXCEPT !.current_finding_check = None,
                        !.current_finding = None],
             TRUE)

\* Variant of the noise branch that clears the check name and keeps the
\* finding.
KnownNoiseKeepsFinding(st) ==
    IF st.current_finding # None
    THEN IF ~Truthy(st.current_finding_check) THEN Raised(st)
         ELSE Returned([RegisterCurrent(st) EXCEPT
                          !.current_finding = st.current_finding],
                       TRUE)
    ELSE Returned(st, TRUE)

\* The branch of the known noise.
KnownNoise(st) ==
    IF st.current_finding # None
    THEN IF ~Truthy(st.current_finding_check) THEN Raised(st)
         ELSE Returned(RegisterCurrent(st), TRUE)
    ELSE Returned(st, TRUE)

\* Variant of the branch of a code hint that gives the hint to the first
\* diagnostic of the finding.
CodeHintFirst(st, line) ==
    IF st.current_finding # None
    THEN LET diags == get_diagnostics(st.current_finding[1])
         IN Returned([st EXCEPT !.current_finding =
                         <<[diags EXCEPT ![1] = add_code_hints(@, line)]>>],
                     TRUE)
    ELSE Returned(st, TRUE)

\* The branch of a code hint.
CodeHint(st, line) ==
    IF st.current_finding # None
    THEN LET diags == get_diagnostics(st.current_finding[1])
         IN Returned([st EXCEPT !.current_finding =
                         <<[diags EXCEPT ![Len(diags)] =
                               add_code_hints(@, line)]>>],
                     TRUE)
    ELSE Returned(st, TRUE)

\* The branches of a line the diagnostic pattern matched.  The five groups
\* are named as parse_line unpacks them.
MatchedLine(st, severity, location, msg, category_tag, category) ==
    IF /\ Truthy(category_tag) /\ Truthy(severity)
       /\ Truthy(location) /\ Truthy(msg)
    THEN TaggedDiagnostic(st, severity, location, msg, category)
    ELSE IF Truthy(severity) /\ Truthy(location) /\ Truthy(msg)
    THEN NoteDiagnostic(st, severity, location, msg)
    ELSE Returned(st, TRUE)

\* The part of parse_line under `if self.__expect_warnings:`.
ExpectWarnings(st, line, potential_match) ==
    IF potential_match # None
    THEN MatchedLine(st, potential_match[1], potential_match[2],
                     potential_match[3], potential_match[4],
                     potential_match[5])
    ELSE IF KnownNoiseMatch(line)
    THEN KnownNoise(st)
    ELSE CodeHint(st, line)

\* Variant of the branch of "Enabled checks:" that keeps the flag of the
\* start state.
EnabledChecksHeaderKeepsFlag(st) ==
    Returned([st EXCEPT !.expect_check_name = TRUE], TRUE)

\* The branch of the line "Enabled checks:" in the start state.
EnabledChecksHeader(st) ==
    Returned([st EXCEPT !.expect_enabled_checks = FALSE,
                        !.expect_check_name = TRUE], TRUE)

\* Variant of the branch of the check names that stores the line as it is.
CollectCheckNameUntrimmed(st, line) ==
    IF line # <<>>
    THEN Returned([st EXCEPT !.enabled_checks = Append(@, line)], TRUE)
    ELSE Returned([st EXCEPT !.expect_check_name = FALSE,
                             !.expect_warnings = TRUE], TRUE)

\* The branch under `if self.__expect_check_name:`.
CollectCheckName(st, line) ==
    IF line # <<>>
    THEN Returned([st EXCEPT !.enabled_checks = Append(@, Strip(line))], TRUE)
    ELSE Returned([st EXCEPT !.expect_check_name = FALSE,
                             !.expect_warnings = TRUE], TRUE)

\* Variant of the branch of "Applying fixes ..." that treats the line as
\* noise.
ApplyingFixesAsNoise(st) == KnownNoise(st)

\* The branch of a line that starts with "Applying fixes ...".
ApplyingFixes(st) == Returned(st, FALSE)

\* Variant of parse_line that collects check names in the start state too.
bb_parse_line_names_early(st, line) ==
    IF st.expect_enabled_checks /\ line = EnabledChecksText
    THEN EnabledChecksHeader(st)
    ELSE IF st.expect_check_name \/ st.expect_enabled_checks
    THEN CollectCheckName(st, line)
    ELSE IF StartsWith(line, ApplyingFixesText)
    THEN ApplyingFixes(st)
    ELSE IF st.expect_warnings
    THEN ExpectWarnings(st, line, DiagnosticRegexMatch(line))
    ELSE Returned(st, TRUE)

\* ParseBBOutput.parse_line
bb_parse_line(st, line) ==
    IF st.expect_enabled_checks /\ line = EnabledChecksText
    THEN EnabledChecksHeader(st)
    ELSE IF st.expect_check_name
    THEN CollectCheckName(st, line)
    ELSE IF StartsWith(line, ApplyingFixesText)
    THEN ApplyingFixes(st)
    ELSE IF st.expect_warnings
    THEN ExpectWarnings(st, line, DiagnosticRegexMatch(line))
    ELSE Returned(st, TRUE)

\* ------------------------------------------------------------------------
\* Inputs of the model
\* ------------------------------------------------------------------------

\* The text  path:line:col: severity: message
HeaderText(path, line, col, severity, message) ==
    path \o <<":">> \o line \o <<":">> \o col \o <<":", " ">> \o severity
         \o <<":", " ">> \o message

\* The lines the texts given to the parser are made of: two headers at one
\* location whose messages differ but hash alike, a third header at that
\* location followed by trailing blanks, and a code pointer.
LinePool ==
    {HeaderText(<<"a">>, <<"1">>, <<"2">>, Warning, <<"m", "n">>),
     HeaderText(<<"a">>, <<"1">>, <<"2">>, Warning, <<"n", "m">>),
     HeaderText(<<"a">>, <<"1">>, <<"2">>, Error, <<"m">>) \o <<" ">>,
     <<" ", "^">>}

LineLists(n) == UNION {[1..k -> LinePool] : k \in 0..n}

\* The lists of up to n lines that are one block: a header, then lines that
\* are no headers.
Blocks(n) ==
    {b \in LineLists(n) :
        /\ b # <<>>
        /\ DiagReMatch(RStrip(b[1])) # None
        /\ \A k \in 2..Len(b) : DiagReMatch(RStrip(b[k])) = None}

\* The texts given to parse_string: up to MaxLines lines joined by "\n", and
\* the blocks of up to MaxLines lines followed by themselves.
TextInputs ==
    {JoinLines(ls) : ls \in LineLists(MaxLines)}
        \cup {JoinLines(b \o b) : b \in Blocks(MaxLines)}

\* Single header lines: paths with and without a colon, line and column
\* numbers with and without leading zeros, messages with and without
\* trailing blanks, and the empty message.
HeaderInputs ==
    {HeaderText(path, line, col, severity, message) :
        path \in {<<"a">>, <<"a", ":", "1">>, <<"b", " ">>},
        line \in {<<"1">>, <<"0", "1">>, <<"1", "0">>, <<"0">>},
        col \in {<<"2">>, <<"0", "2">>, <<"2", "0">>},
        severity \in {Warning, Error},
        message \in {<<"m">>, <<"m", " ">>, <<>>, <<"n", ":", " ", "m">>}}

\* A header, a note at the next column, a code pointer, and two lines of
\* the noise clang-tidy prints after its diagnostics.
NoteLinePool ==
    {HeaderText(<<"a">>, <<"1">>, <<"2">>, Warning, <<"m">>),
     HeaderText(<<"a">>, <<"1">>, <<"3">>, <<"n", "o", "t", "e">>, <<"m">>),
     <<" ", "^">>,
     <<"1">> \o WarningsText,
     SuppressedText}

\* The texts of up to MaxLines lines of NoteLinePool.
NoteInputs ==
    {JoinLines(ls) : ls \in UNION {[1..k -> NoteLinePool] : k \in 1..MaxLines}}

\* The lines given to a ParseBBOutput: the header of the check names, a check
\* name between blanks (a code hint once the names are read), the empty line,
\* a diagnostic of check c and one of check d, a note, the line that ends the
\* diagnostics, and a count of warnings.
BBLinePool ==
    {EnabledChecksText,
     <<" ", "c", " ">>,
     <<"d">>,
     <<>>,
     <<"a">> \o <<":", " ">> \o Warning \o <<":", " ">>
         \o <<"m", " ", "[", "c", "]">>,
     <<"a">> \o <<":", " ">> \o Warning \o <<":", " ">>
         \o <<"m", " ", "[", "d", "]">>,
     <<"a">> \o <<":", " ">> \o Note \o <<":", " ">> \o <<"n">>,
     ApplyingFixesText,
     <<"1">> \o WarningsText}

\* The lines of an aggregate log: the preamble with its check names, then
\* one tagged diagnostic of check c, time and again, and noise lines.
LogNameLines == {<<" ", "c", " ">>, <<"c">>, <<"d">>}

LogDiagnosticLine ==
    <<"a">> \o <<":", " ">> \o Warning \o <<":", " ">>
        \o <<"m", " ", "[", "c", "]">>

LogNoiseLines == {<<>>, <<"1">> \o WarningsText, SuppressedText}

LogLinePool ==
    {EnabledChecksText, LogDiagnosticLine} \cup LogNameLines \cup LogNoiseLines

\* The lines of BBLinePool that are no diagnostics.
BBNoisePool == {l \in BBLinePool : DiagnosticRegexMatch(RStrip(l)) = None}

\* Texts without a header line, given to a ParseClangTidyDiagnostics.
NoiseInputs ==
    {<<" ", "^">>,
     JoinLines(<<<<"1">> \o WarningsText, <<" ", "^">>>>)}

\* Arguments of Diagnostic(path, line, column, diag).
DiagnosticInputs ==
    [path : {<<"a">>},
     line : {1, 2},
     column : {2},
     diag : {<<"m">>, <<"m", "n">>, <<"n", "m">>}]

\* Lines added to a Diagnostic: a code pointer, a text, the empty line and a
\* note.
AdditionalLines ==
    {<<" ", "^">>, <<"m">>, <<>>,
     HeaderText(<<"a">>, <<"1">>, <<"3">>, <<"n", "o", "t", "e">>, <<"m">>)}

\* Arguments of DiagEssence(path, line, column, diag, additional_info).
EssenceInputs ==
    [path : {<<"a">>, <<"a", "b">>, <<"b", "a">>},
     line : {1, 2},
     column : {1, 2},
     diag : {<<"m", "n">>, <<"n", "m">>, <<"m">>},
     additional_info : {<<>>, <<"\n", " ", "^">>}]

\* The arguments of the fingerprints given to a Deduplication: two locations
\* of equal path + line + column, and two messages that hash alike.
DedupInputs ==
    {x \in EssenceInputs : x.line + x.column = 3 /\ x.diag # <<"m">>}

\* Check diagnostics as the tests build them: a warning of check c at two
\* locations, a note, and the note with a code hint that repeats its own
\* description.
WarningDiag == CheckDiagnostic(Warning, <<"a">>, <<"m">>, <<<<"c">>>>)

WarningDiagLater == CheckDiagnostic(Warning, <<"b">>, <<"m">>, <<<<"c">>>>)

NoteDiag == CheckDiagnostic(Note, <<"a">>, <<"n">>, None)

NoteDiagTwice == add_code_hints(NoteDiag, get_description(NoteDiag))

\* Findings built of them with FindingDiagnostic and add_diagnostic.
FindingInputs ==
    {FindingDiagnostic(WarningDiag),
     add_diagnostic(FindingDiagnostic(WarningDiag), NoteDiag),
     add_diagnostic(FindingDiagnostic(NoteDiag), WarningDiag),
     add_diagnostic(FindingDiagnostic(WarningDiagLater), NoteDiag),
     FindingDiagnostic(add_code_hints(WarningDiag, get_description(NoteDiag))),
     FindingDiagnostic(NoteDiag),
     FindingDiagnostic(NoteDiagTwice),
     add_diagnostic(FindingDiagnostic(NoteDiag), NoteDiag),
     add_diagnostic(FindingDiagnostic(NoteDiag), NoteDiagTwice),
     add_diagnostic(FindingDiagnostic(NoteDiagTwice), NoteDiag),
     FindingDiagnostic(WarningDiagLater)}

\* The findings given to a Findings registry, two of them of equal text.
RegisterInputs ==
    {FindingDiagnostic(WarningDiag),
     add_diagnostic(FindingDiagnostic(WarningDiag), NoteDiag),
     FindingDiagnostic(add_code_hints(WarningDiag, get_description(NoteDiag)))}

\* The check names findings are registered under, and the names asked for;
\* None asks for all checks.
RegisterNames == {<<"c">>, <<"d">>}

QueryNames == {None} \cup {<<n>> : n \in RegisterNames \cup {<<"b">>}}

\* DiagEssence(...) of a record of arguments.
EssenceOf(x) == DiagEssence(x.path, x.line, x.column, x.diag, x.additional_info)

\* ------------------------------------------------------------------------
\* run-clang-tidy.py: what run_tidy and main work with
\* ------------------------------------------------------------------------

\* The for loop of _parse_lines over a list of lines.
RECURSIVE parse_each(_, _)
parse_each(st, line_list) ==
    IF line_list = <<>> THEN st
    ELSE parse_each(parse_line(st, RStrip(line_list[1])), Tail(line_list))

\* ParseClangTidyDiagnostics._parse_lines as one call: <<the parser after
\* it>>, or None when the assertion of a clean state fails.
parse_lines(st, line_list) ==
    IF st.current_diag # None THEN None
    ELSE <<register_diag(parse_each(st, line_list))>>

\* ParseClangTidyDiagnostics.parse_string as one call.
parse_string(st, input_str) == parse_lines(st, SplitLines(input_str))

\* A byte that is part of no UTF-8 text.
InvalidByte == "xff"

\* bytes.decode('utf-8'): <<the text>>, or None when it raises
\* UnicodeDecodeError.
Utf8Decode(bytes) ==
    IF \E i \in 1..Len(bytes) : bytes[i] = InvalidByte THEN None
    ELSE <<bytes>>

\* "\n".join([str(diag) for diag in parser.get_diags()])
DiagsText(st) ==
    JoinLines([i \in 1..Len(st.uniq_diags) |-> DiagStr(st.uniq_diags[i])])

\* The threads main may start.
Workers == 1..MaxWorkers

\* The values of max_task: args.j, or cpu_count() for -j 0; argparse takes
\* any integer, and range(max_task) is empty for a negative one.
TaskCounts == {-1} \cup Workers

\* What proc.communicate() and proc.returncode give for a file: a warning,
\* a warning with an error on stderr and a failing exit status, and output
\* that holds a byte that is no UTF-8.
TidyResults ==
    {[returncode |-> 0,
      output |-> HeaderText(<<"a">>, <<"1">>, <<"2">>, Warning, <<"m">>),
      err |-> <<>>],
     [returncode |-> 1,
      output |-> HeaderText(<<"a">>, <<"1">>, <<"2">>, Warning, <<"m">>),
      err |-> <<"e">>],
     [returncode |-> 0,
      output |-> <<"a", InvalidByte>>,
      err |-> <<>>]}

\* ------------------------------------------------------------------------
\* State
\* ------------------------------------------------------------------------

VARIABLES
    \* a ParseClangTidyDiagnostics and the parse_string call that runs on it
    current_diag,   \* ParseClangTidyDiagnostics._current_diag
    dedup,          \* ParseClangTidyDiagnostics._dedup._set
    uniq_diags,     \* ParseClangTidyDiagnostics._uniq_diags
    pc,             \* "idle", or "loop" inside the for loop of _parse_lines
    input_text,     \* argument of the running (or last) parse_string call
    line_list,      \* argument of the running (or last) _parse_lines call
    pos,            \* index in line_list of the next line of the for loop
    raised,         \* the last parse_string call raised AssertionError
    last,           \* what the last step did
    entry_dedup,    \* history: dedup when the running (or last) call began
    calls,          \* number of parse_string calls made so far
    \* a Deduplication used on its own
    dd_set,         \* Deduplication._set
    dd_in,          \* arguments the last inserted fingerprint was built from
    dd_ret,         \* value returned by the last insert_and_query
    dd_prev,        \* history: _set before the last insert_and_query
    dd_hist,        \* history: arguments of the fingerprints inserted before
    dd_calls,       \* number of insert_and_query calls made so far
    \* two DiagEssence objects compared with each other
    de_in,          \* <<arguments of the first, arguments of the second>>
    de_eq,          \* result of first == second
    de_hash,        \* <<first.__hash__(), second.__hash__()>>
    \* a Diagnostic of run-clang-tidy.py and one of utility.py, built alike
    dg_in,          \* <<arguments of Diagnostic(...)>>, <<>> before it
    dg,             \* the Diagnostic of run-clang-tidy.py
    dg_util,        \* the Diagnostic of utility.py
    dg_lines,       \* history: the lines added so far, in order
    \* a ParseBBOutput and the parse_lines call that runs on it
    expect_enabled_checks,  \* ParseBBOutput.__expect_enabled_checks
    expect_check_name,      \* ParseBBOutput.__expect_check_name
    expect_warnings,        \* ParseBBOutput.__expect_warnings
    current_finding_check,  \* ParseBBOutput.__current_finding_check
    current_finding,        \* ParseBBOutput.__current_finding
    enabled_checks,         \* ParseBBOutput.__enabled_checks
    all_findings,           \* ParseBBOutput.__all_findings
    bb_pc,          \* "idle", or "loop" inside the for loop of parse_lines
    bb_line,        \* <<the line parse_line was last given>>, <<>> before it
    bb_ret,         \* value the last parse_line returned
    bb_raised,      \* the last call raised AssertionError
    bb_last,        \* what the last step did
    bb_fed,         \* number of lines given to parse_line so far
    bb_calls,       \* number of parse_lines calls made so far
    bb_tagged,      \* history: number of tagged lines taken awaiting findings
    bb_names,       \* history: the non-empty lines taken collecting names
    bb_header_fed,  \* history: a line "Enabled checks:" was taken
    \* a Findings on its own
    fr_reg,         \* the Findings object
    fr_op,          \* the last operation made on it
    fr_arg,         \* the arguments of the last operation
    fr_ret,         \* the counts the last query returned
    fr_hist,        \* history: the (check, finding) pairs registered
    \* two FindingDiagnostic objects compared with each other
    fo_in,          \* <<>> or the two findings
    fo_eq,          \* self == other
    fo_lt,          \* <<self < other, other < self, self < self>>
    fo_hash,        \* the hashes of both
    fo_sorted,      \* findings_for_check of a registry given both
    \* main of run-clang-tidy.py and the run_tidy threads it starts
    t_main_pc,      \* where main is: "start", "fill", "fixes", "exit"
    t_max_task,     \* max_task
    t_nfiles,       \* the number of files the filter matches, which are
                    \* named 1..t_nfiles; the loop passes over the others
    t_next,         \* the name the for loop over files puts next
    t_queue,        \* task_queue: the names waiting
    t_unfinished,   \* task_queue.unfinished_tasks
    t_failed,       \* failed_files
    t_return_code,  \* return_code
    t_lock,         \* lock: 0 when free, else the worker holding it
    t_out,          \* what sys.stdout and sys.stderr were given, in order,
                    \* each write with the thread that made it
    t_assert,       \* history: a parse_string call raised AssertionError
    t_put,          \* history: the names main has put on the queue
    t_acked,        \* history: the names task_done was called for
    t_fixes_failed, \* history: exporting or applying the fixes raised
    w_pc,           \* per worker: where run_tidy is
    w_name,         \* per worker: name
    w_res,          \* per worker: <<what communicate() returned>>
    w_parser        \* per worker: parser

parserVars == <<current_diag, dedup, uniq_diags>>

callVars == <<pc, input_text, line_list, pos, raised, last, entry_dedup, calls>>

dedupVars == <<dd_set, dd_in, dd_ret, dd_prev, dd_hist, dd_calls>>

essenceVars == <<de_in, de_eq, de_hash>>

recordVars == <<dg_in, dg, dg_util, dg_lines>>

bbVars == <<expect_enabled_checks, expect_check_name, expect_warnings,
            current_finding_check, current_finding, enabled_checks,
            all_findings>>

bbCallVars == <<bb_pc, bb_line, bb_ret, bb_raised, bb_last, bb_fed, bb_calls,
                bb_tagged, bb_names, bb_header_fed>>

findingsVars == <<fr_reg, fr_op, fr_arg, fr_ret, fr_hist>>
orderVars == <<fo_in, fo_eq, fo_lt, fo_hash, fo_sorted>>

tidyVars == <<t_main_pc, t_max_task, t_nfiles, t_next, t_queue, t_unfinished,
              t_failed, t_return_code, t_lock, t_out, t_assert, t_put,
              t_acked, t_fixes_failed, w_pc, w_name, w_res, w_parser>>
vars == <<parserVars, callVars, dedupVars, essenceVars, recordVars, bbVars,
          bbCallVars, findingsVars, orderVars, tidyVars>>

\* The fields of the ParseBBOutput as one value, and their assignment.
BBSelf ==
    [expect_enabled_checks |-> expect_enabled_checks,
     expect_check_name     |-> expect_check_name,
     expect_warnings       |-> expect_warnings,
     current_finding_check |-> current_finding_check,
     current_finding       |-> current_finding,
     enabled_checks        |-> enabled_checks,
     all_findings          |-> all_findings]

BBAssign(st) ==
    /\ expect_enabled_checks' = st.expect_enabled_checks
    /\ expect_check_name' = st.expect_check_name
    /\ expect_warnings' = st.expect_warnings
    /\ current_finding_check' = st.current_finding_check
    /\ current_finding' = st.current_finding
    /\ enabled_checks' = st.enabled_checks
    /\ all_findings' = st.all_findings

\* ParseBBOutput.get_enabled_checks
get_enabled_checks == enabled_checks

\* ParseBBOutput.get_findings
get_findings == all_findings

\* The parser's fields as one value, and their assignment.
Self == [current_diag |-> current_diag, dedup |-> dedup,
         uniq_diags |-> uniq_diags]

Assign(st) ==
    /\ current_diag' = st.current_diag
    /\ dedup' = st.dedup
    /\ uniq_diags' = st.uniq_diags

\* ParseClangTidyDiagnostics.get_diags
get_diags == uniq_diags

\* ------------------------------------------------------------------------
\* Initial state: a new parser, a new Deduplication, nothing compared yet
\* ------------------------------------------------------------------------

Init ==
    /\ current_diag = NewParser.current_diag
    /\ dedup = NewParser.dedup
    /\ uniq_diags = NewParser.uniq_diags
    /\ pc = "idle"
    /\ input_text = <<>>
    /\ line_list = <<>>
    /\ pos = 1
    /\ raised = FALSE
    /\ last = "init"
    /\ entry_dedup = {}
    /\ calls = 0
    /\ dd_set = {}
    /\ dd_in = <<>>
    /\ dd_ret = FALSE
    /\ dd_prev = {}
    /\ dd_hist = {}
    /\ dd_calls = 0
    /\ de_in = <<>>
    /\ de_eq = FALSE
    /\ de_hash = <<>>
    /\ dg_in = <<>>
    /\ dg = None
    /\ dg_util = None
    /\ dg_lines = <<>>
    /\ expect_enabled_checks = NewParseBBOutput.expect_enabled_checks
    /\ expect_check_name = NewParseBBOutput.expect_check_name
    /\ expect_warnings = NewParseBBOutput.expect_warnings
    /\ current_finding_check = NewParseBBOutput.current_finding_check
    /\ current_finding = NewParseBBOutput.current_finding
    /\ enabled_checks = NewParseBBOutput.enabled_checks
    /\ all_findings = NewParseBBOutput.all_findings
    /\ bb_pc = "idle"
    /\ bb_line = <<>>
    /\ bb_ret = TRUE
    /\ bb_raised = FALSE
    /\ bb_last = "init"
    /\ bb_fed = 0
    /\ bb_calls = 0
    /\ bb_tagged = 0
    /\ bb_names = <<>>
    /\ bb_header_fed = FALSE
    /\ fr_reg = NewFindings
    /\ fr_op = "init"
    /\ fr_arg = <<>>
    /\ fr_ret = <<>>
    /\ fr_hist = <<>>
    /\ fo_in = <<>>
    /\ fo_eq = FALSE
    /\ fo_lt = <<FALSE, FALSE, FALSE>>
    /\ fo_hash = <<0, 0>>
    /\ fo_sorted = <<>>
    /\ t_main_pc = "start"
    /\ t_max_task = 0
    /\ t_nfiles = 0
    /\ t_next = 1
    /\ t_queue = <<>>
    /\ t_unfinished = 0
    /\ t_failed = <<>>
    /\ t_return_code = 0
    /\ t_lock = 0
    /\ t_out = <<>>
    /\ t_assert = FALSE
    /\ t_put = {}
    /\ t_acked = {}
    /\ t_fixes_failed = FALSE
    /\ w_pc = [w \in Workers |-> "off"]
    /\ w_name = [w \in Workers |-> 0]
    /\ w_res = [w \in Workers |-> <<>>]
    /\ w_parser = [w \in Workers |-> NewParser]

\* ------------------------------------------------------------------------
\* The parser as a state machine
\* ------------------------------------------------------------------------

\* Variant of parse_string without the assertion of a clean state.
ParseStringNoAssert(input_str) ==
    /\ pc = "idle"
    /\ calls < MaxCalls
    /\ calls' = calls + 1
    /\ raised' = FALSE
    /\ last' = "enter"
    /\ pc' = "loop"
    /\ input_text' = input_str
    /\ line_list' = SplitLines(input_str)
    /\ pos' = 1
    /\ entry_dedup' = dedup
    /\ UNCHANGED parserVars
    /\ UNCHANGED <<dedupVars, essenceVars, recordVars, bbVars, bbCallVars,
                   findingsVars, orderVars, tidyVars>>

\* parse_string(input_str) up to the entry of the for loop of _parse_lines:
\* the assertion of a clean state, then the loop over input_str.splitlines().
ParseString(input_str) ==
    /\ pc = "idle"
    /\ calls < MaxCalls
    /\ calls' = calls + 1
    /\ IF current_diag # None
       THEN /\ raised' = TRUE
            /\ last' = "assert"
            /\ UNCHANGED <<parserVars, pc, input_text, line_list, pos,
                           entry_dedup>>
       ELSE /\ raised' = FALSE
            /\ last' = "enter"
            /\ pc' = "loop"
            /\ input_text' = input_str
            /\ line_list' = SplitLines(input_str)
            /\ pos' = 1
            /\ entry_dedup' = dedup
            /\ UNCHANGED parserVars
    /\ UNCHANGED <<dedupVars, essenceVars, recordVars, bbVars, bbCallVars,
                   findingsVars, orderVars, tidyVars>>

\* One iteration of the for loop: self._parse_line(line.rstrip()).
ParseLine ==
    /\ pc = "loop"
    /\ pos <= Len(line_list)
    /\ LET line == RStrip(line_list[pos])
       IN /\ Assign(parse_line(Self, line))
          /\ last' = IF DiagReMatch(line) # None THEN "header"
                     ELSE IF current_diag # None THEN "context"
                     ELSE "discard"
    /\ pos' = pos + 1
    /\ UNCHANGED <<pc, input_text, line_list, raised, entry_dedup, calls>>
    /\ UNCHANGED <<dedupVars, essenceVars, recordVars, bbVars, bbCallVars,
                   findingsVars, orderVars, tidyVars>>

\* Variant of the end of _parse_lines that registers nothing.
ParseEndNoRegister ==
    /\ pc = "loop"
    /\ pos > Len(line_list)
    /\ pc' = "idle"
    /\ last' = "eof"
    /\ UNCHANGED <<parserVars, input_text, line_list, pos, raised, entry_dedup,
                   calls>>
    /\ UNCHANGED <<dedupVars, essenceVars, recordVars, bbVars, bbCallVars,
                   findingsVars, orderVars, tidyVars>>

\* Variant of the end of _parse_lines that leaves no diagnostic in flight.
ParseEndClears ==
    /\ pc = "loop"
    /\ pos > Len(line_list)
    /\ Assign([register_diag(Self) EXCEPT !.current_diag = None])
    /\ pc' = "idle"
    /\ last' = "eof"
    /\ UNCHANGED <<input_text, line_list, pos, raised, entry_dedup, calls>>
    /\ UNCHANGED <<dedupVars, essenceVars, recordVars, bbVars, bbCallVars,
                   findingsVars, orderVars, tidyVars>>

\* The end of _parse_lines: the last diagnostic is registered.
ParseEnd ==
    /\ pc = "loop"
    /\ pos > Len(line_list)
    /\ Assign(register_diag(Self))
    /\ pc' = "idle"
    /\ last' = "eof"
    /\ UNCHANGED <<input_text, line_list, pos, raised, entry_dedup, calls>>
    /\ UNCHANGED <<dedupVars, essenceVars, recordVars, bbVars, bbCallVars,
                   findingsVars, orderVars, tidyVars>>

\* reset_parser()
ResetParser ==
    /\ pc = "idle"
    /\ Assign(reset_parser(Self))
    /\ last' = "reset"
    /\ UNCHANGED <<pc, input_text, line_list, pos, raised, entry_dedup, calls>>
    /\ UNCHANGED <<dedupVars, essenceVars, recordVars, bbVars, bbCallVars,
                   findingsVars, orderVars, tidyVars>>

Next ==
    \/ \E input_str \in TextInputs : ParseString(input_str)
    \/ ParseLine
    \/ ParseEnd
    \/ ResetParser

Spec == Init /\ [][Next]_vars

\* The same parser when every text after the first is the first one again.
SameTextAgain ==
    \E input_str \in TextInputs :
        /\ calls > 0 => input_str = input_text
        /\ ParseString(input_str)

NextTwice ==
    \/ SameTextAgain
    \/ ParseLine
    \/ ParseEnd
    \/ ResetParser

SpecTwice == Init /\ [][NextTwice]_vars

\* A new parser that is given one text: a single header line, or lines with
\* notes among them.
ParseFirstString ==
    \E input_str \in HeaderInputs \cup NoteInputs :
        /\ calls = 0
        /\ ParseString(input_str)

NextFirst ==
    \/ ParseFirstString
    \/ ParseLine
    \/ ParseEnd
    \/ ResetParser

SpecFirst == Init /\ [][NextFirst]_vars

\* ------------------------------------------------------------------------
\* A Deduplication on its own
\* ------------------------------------------------------------------------

\* dedup.insert_and_query(DiagEssence(x...))
InsertAndQuery(x) ==
    /\ dd_calls < MaxInserts
    /\ LET r == insert_and_query(dd_set, EssenceOf(x))
       IN /\ dd_set' = r.set
          /\ dd_ret' = r.ret
    /\ dd_in' = <<x>>
    /\ dd_prev' = dd_set
    /\ dd_hist' = IF dd_in = <<>> THEN {} ELSE dd_hist \cup {dd_in[1]}
    /\ dd_calls' = dd_calls + 1
    /\ UNCHANGED <<parserVars, callVars, essenceVars, recordVars, bbVars,
                   bbCallVars, findingsVars, orderVars, tidyVars>>

NextDedup == \E x \in DedupInputs : InsertAndQuery(x)

SpecDedup == Init /\ [][NextDedup]_vars

\* ------------------------------------------------------------------------
\* Two DiagEssence objects
\* ------------------------------------------------------------------------

\* de1 = DiagEssence(x...); de2 = DiagEssence(y...); de1 == de2, and the
\* two hashes.  One pair is built and compared in a run.
Compare(x, y) ==
    /\ de_in = <<>>
    /\ de_in' = <<x, y>>
    /\ de_eq' = EssenceEq(EssenceOf(x), EssenceOf(y))
    /\ de_hash' = <<EssenceHash(EssenceOf(x)), EssenceHash(EssenceOf(y))>>
    /\ UNCHANGED <<parserVars, callVars, dedupVars, recordVars, bbVars,
                   bbCallVars, findingsVars, orderVars, tidyVars>>

NextEssence == \E x \in EssenceInputs, y \in EssenceInputs : Compare(x, y)

SpecEssence == Init /\ [][NextEssence]_vars

\* ------------------------------------------------------------------------
\* Two Diagnostic objects, one of each file
\* ------------------------------------------------------------------------

\* d = Diagnostic(x...), with the class of either file.
NewDiagnostic(x) ==
    /\ dg_in = <<>>
    /\ dg_in' = <<x>>
    /\ dg' = <<Diagnostic(x.path, x.line, x.column, x.diag)>>
    /\ dg_util' = <<Diagnostic(x.path, x.line, x.column, x.diag)>>
    /\ dg_lines' = <<>>
    /\ UNCHANGED <<parserVars, callVars, dedupVars, essenceVars, bbVars,
                   bbCallVars, findingsVars, orderVars, tidyVars>>

\* d.add_additional_line(line), on either object.
AddAdditionalLine(line) ==
    /\ dg_in # <<>>
    /\ Len(dg_lines) < MaxLines
    /\ dg' = <<add_additional_line(dg[1], line)>>
    /\ dg_util' = <<add_additional_line_utility(dg_util[1], line)>>
    /\ dg_lines' = Append(dg_lines, line)
    /\ UNCHANGED dg_in
    /\ UNCHANGED <<parserVars, callVars, dedupVars, essenceVars, bbVars,
                   bbCallVars, findingsVars, orderVars, tidyVars>>

NextRecord ==
    \/ \E x \in DiagnosticInputs : NewDiagnostic(x)
    \/ \E line \in AdditionalLines : AddAdditionalLine(line)

SpecRecord == Init /\ [][NextRecord]_vars

\* ------------------------------------------------------------------------
\* The ParseBBOutput as a state machine
\* ------------------------------------------------------------------------

\* Variant of parse_lines without the assertion of the start state.
BBParseLinesAnyState ==
    /\ bb_pc = "idle"
    /\ bb_calls < MaxCalls
    /\ bb_calls' = bb_calls + 1
    /\ bb_raised' = FALSE
    /\ bb_last' = "enter"
    /\ bb_pc' = "loop"
    /\ UNCHANGED <<bbVars, bb_line, bb_ret, bb_fed, bb_tagged, bb_names,
                   bb_header_fed>>
    /\ UNCHANGED <<parserVars, callVars, dedupVars, essenceVars, recordVars,
                   findingsVars, orderVars, tidyVars>>

\* parse_lines(line_list) (parse_string, parse_file) up to the entry of its
\* for loop: the assertion of the start state.
BBParseLines ==
    /\ bb_pc = "idle"
    /\ bb_calls < MaxCalls
    /\ bb_calls' = bb_calls + 1
    /\ IF ~expect_enabled_checks
       THEN /\ bb_raised' = TRUE
            /\ bb_last' = "assert"
            /\ UNCHANGED bb_pc
       ELSE /\ bb_raised' = FALSE
            /\ bb_last' = "enter"
            /\ bb_pc' = "loop"
    /\ UNCHANGED <<bbVars, bb_line, bb_ret, bb_fed, bb_tagged, bb_names,
                   bb_header_fed>>
    /\ UNCHANGED <<parserVars, callVars, dedupVars, essenceVars, recordVars,
                   findingsVars, orderVars, tidyVars>>

\* What a parse_line call leaves: the fields, the returned value, and the
\* loop left behind when an assertion failed.
BBLineResult(r) ==
    /\ BBAssign(r.st)
    /\ bb_ret' = r.ret
    /\ bb_raised' = r.raised
    /\ bb_pc' = IF r.raised THEN "idle" ELSE "loop"

\* The line is one the tagged branch of parse_line takes.
TakesTaggedBranch(line) ==
    /\ ~StartsWith(line, ApplyingFixesText)
    /\ DiagnosticRegexMatch(line) # None
    /\ DiagnosticRegexMatch(line)[4] # None

\* One iteration of the for loop, on the next line of the list; the lines
\* come stripped of trailing whitespace (parse_string, parse_file).
BBFeed(raw) ==
    /\ bb_pc = "loop"
    /\ BBLineResult(bb_parse_line(BBSelf, RStrip(raw)))
    /\ bb_line' = <<RStrip(raw)>>
    /\ bb_last' = "line"
    /\ bb_fed' = bb_fed + 1
    /\ bb_tagged' = IF expect_warnings /\ TakesTaggedBranch(RStrip(raw))
                    THEN bb_tagged + 1 ELSE bb_tagged
    /\ bb_names' = IF expect_check_name /\ RStrip(raw) # <<>>
                   THEN Append(bb_names, RStrip(raw)) ELSE bb_names
    /\ bb_header_fed' = (bb_header_fed \/ RStrip(raw) = EnabledChecksText)
    /\ UNCHANGED bb_calls
    /\ UNCHANGED <<parserVars, callVars, dedupVars, essenceVars, recordVars,
                   findingsVars, orderVars, tidyVars>>

\* The lines and the check names stay within the given numbers.
BBRoom(lines, checks, raw) ==
    /\ bb_fed < lines
    /\ (expect_check_name /\ RStrip(raw) # <<>>) => Len(enabled_checks) < checks

\* BBFeed within MaxBBLines lines and MaxChecks check names.
BBParseLine(raw) == BBRoom(MaxBBLines, MaxChecks, raw) /\ BBFeed(raw)

\* Variant of the end of the list that registers the finding that still
\* accumulates.
BBReturnFinalizes ==
    /\ bb_pc = "loop"
    /\ bb_pc' = "idle"
    /\ bb_last' = "return"
    /\ BBAssign(IF current_finding # None /\ Truthy(current_finding_check)
                THEN RegisterCurrent(BBSelf) ELSE BBSelf)
    /\ UNCHANGED <<bb_line, bb_ret, bb_raised, bb_fed, bb_calls,
                   bb_tagged, bb_names, bb_header_fed>>
    /\ UNCHANGED <<parserVars, callVars, dedupVars, essenceVars, recordVars,
                   findingsVars, orderVars, tidyVars>>

\* The end of the list: parse_lines returns.
BBReturn ==
    /\ bb_pc = "loop"
    /\ bb_pc' = "idle"
    /\ bb_last' = "return"
    /\ UNCHANGED <<bbVars, bb_line, bb_ret, bb_raised, bb_fed, bb_calls,
                   bb_tagged, bb_names, bb_header_fed>>
    /\ UNCHANGED <<parserVars, callVars, dedupVars, essenceVars, recordVars,
                   findingsVars, orderVars, tidyVars>>

NextBB ==
    \/ BBParseLines
    \/ \E raw \in BBLinePool : BBParseLine(raw)
    \/ BBReturn

SpecBB == Init /\ [][NextBB]_vars

\* Either parser when no line it is given is a header.
ParseNoiseString == \E input_str \in NoiseInputs : ParseString(input_str)

BBParseNoiseLine == \E raw \in BBNoisePool : BBParseLine(raw)

NextNoise ==
    \/ ParseNoiseString
    \/ ParseLine
    \/ ParseEnd
    \/ ResetParser
    \/ BBParseLines
    \/ BBParseNoiseLine
    \/ BBReturn

SpecNoise == Init /\ [][NextNoise]_vars

\* ------------------------------------------------------------------------
\* A Findings on its own, and two findings compared
\* ------------------------------------------------------------------------

\* findings.register_finding(check, finding)
RegisterFinding(check, finding) ==
    /\ Len(fr_hist) < MaxRegisters
    /\ fr_reg' = register_finding(fr_reg, check, finding)
    /\ fr_op' = "register"
    /\ fr_arg' = <<check, finding>>
    /\ fr_hist' = Append(fr_hist, <<check, finding>>)
    /\ UNCHANGED fr_ret
    /\ UNCHANGED <<parserVars, callVars, dedupVars, essenceVars, recordVars,
                   bbVars, bbCallVars, orderVars, tidyVars>>

\* findings.total_finding_count(name) and findings.unique_finding_count(name);
\* name is None when no name is given.
QueryCounts(name) ==
    /\ fr_op' = "query"
    /\ fr_arg' = <<name>>
    /\ fr_ret' = IF name = None
                 THEN <<total_finding_count_all(fr_reg),
                        unique_finding_count_all(fr_reg)>>
                 ELSE <<total_finding_count(fr_reg, name[1]),
                        unique_finding_count(fr_reg, name[1])>>
    /\ UNCHANGED <<fr_reg, fr_hist>>
    /\ UNCHANGED <<parserVars, callVars, dedupVars, essenceVars, recordVars,
                   bbVars, bbCallVars, orderVars, tidyVars>>

NextFindings ==
    \/ \E check \in RegisterNames, finding \in RegisterInputs :
          RegisterFinding(check, finding)
    \/ \E name \in QueryNames : QueryCounts(name)

SpecFindings == Init /\ [][NextFindings]_vars

\* self == other, self < other, the hashes, and findings_for_check of a
\* registry that was given both under one check.
CompareFindings(self, other) ==
    /\ fo_in = <<>>
    /\ fo_in' = <<self, other>>
    /\ fo_eq' = FindingEq(self, other)
    /\ fo_lt' = <<FindingLess(self, other), FindingLess(other, self),
                  FindingLess(self, self)>>
    /\ fo_hash' = <<FindingHash(self), FindingHash(other)>>
    /\ fo_sorted' = findings_for_check(
                        register_finding(
                            register_finding(NewFindings, <<"c">>, self),
                            <<"c">>, other),
                        <<"c">>)
    /\ UNCHANGED <<parserVars, callVars, dedupVars, essenceVars, recordVars,
                   bbVars, bbCallVars, findingsVars, tidyVars>>

NextOrder ==
    \E self \in FindingInputs, other \in FindingInputs :
        CompareFindings(self, other)

SpecOrder == Init /\ [][NextOrder]_vars

\* The order of the lines of an aggregate log: noise before the preamble,
\* "Enabled checks:", the check names and the empty line that ends them,
\* then every diagnostic followed by a noise line.
LogAllows(raw) ==
    IF expect_enabled_checks
    THEN raw \in {EnabledChecksText, <<"1">> \o WarningsText}
    ELSE IF expect_check_name
    THEN raw \in LogNameLines \cup {<<>>}
    ELSE IF current_finding = None
    THEN raw = LogDiagnosticLine
    ELSE raw \in LogNoiseLines

\* One iteration of the for loop on the next line of an aggregate log.
BBParseLogLine ==
    \E raw \in LogLinePool :
        /\ LogAllows(raw)
        /\ BBRoom(MaxLogLines, MaxLogChecks, raw)
        /\ BBFeed(raw)

NextLog ==
    \/ BBParseLines
    \/ BBParseLogLine
    \/ BBReturn

SpecLog == Init /\ [][NextLog]_vars

\* ------------------------------------------------------------------------
\* main and run_tidy as a state machine.  A KeyboardInterrupt, which ends
\* the process from outside, is no step of it.
\* ------------------------------------------------------------------------

\* main up to the for loop over the files: max_task is fixed, the queue, the
\* list of failed files and the lock are made and max_task threads are
\* started, each of which makes its parser and waits in queue.get().
MainStart(j, n) ==
    /\ t_main_pc = "start"
    /\ t_main_pc' = "fill"
    /\ t_max_task' = j
    /\ t_nfiles' = n
    /\ w_pc' = [w \in Workers |-> IF w <= j THEN "get" ELSE "off"]
    /\ w_parser' = [w \in Workers |-> NewParser]
    /\ UNCHANGED <<t_next, t_queue, t_unfinished, t_failed, t_return_code,
                   t_lock, t_out, t_assert, t_put, t_acked, t_fixes_failed,
                   w_name, w_res>>
    /\ UNCHANGED <<parserVars, callVars, dedupVars, essenceVars, recordVars,
                   bbVars, bbCallVars, findingsVars, orderVars>>

\* queue.Queue(max_task) is full; a size of zero or less is no limit.
QueueFull == t_max_task > 0 /\ Len(t_queue) >= t_max_task

\* One iteration of `for name in files` that puts a name:
\* task_queue.put(name), which waits while the queue is full.
MainPut ==
    /\ t_main_pc = "fill"
    /\ t_next <= t_nfiles
    /\ ~QueueFull
    /\ t_queue' = Append(t_queue, t_next)
    /\ t_unfinished' = t_unfinished + 1
    /\ t_put' = t_put \cup {t_next}
    /\ t_next' = t_next + 1
    /\ UNCHANGED <<t_main_pc, t_max_task, t_nfiles, t_failed, t_return_code,
                   t_lock, t_out, t_assert, t_acked, t_fixes_failed,
                   w_pc, w_name, w_res, w_parser>>
    /\ UNCHANGED <<parserVars, callVars, dedupVars, essenceVars, recordVars,
                   bbVars, bbCallVars, findingsVars, orderVars>>

\* task_queue.join() returns, and return_code is set from failed_files.
MainJoin ==
    /\ t_main_pc = "fill"
    /\ t_next > t_nfiles
    /\ t_unfinished = 0
    /\ t_main_pc' = "fixes"
    /\ t_return_code' = IF Len(t_failed) # 0 THEN 1 ELSE t_return_code
    /\ UNCHANGED <<t_max_task, t_nfiles, t_next, t_queue, t_unfinished,
                   t_failed, t_lock, t_out, t_assert, t_put, t_acked,
                   t_fixes_failed, w_pc, w_name, w_res, w_parser>>
    /\ UNCHANGED <<parserVars, callVars, dedupVars, essenceVars, recordVars,
                   bbVars, bbCallVars, findingsVars, orderVars>>

\* The rest of main: the fixes are exported and applied when asked for,
\* either of which may raise, and sys.exit(return_code).
MainExit(fixes_failed) ==
    /\ t_main_pc = "fixes"
    /\ t_main_pc' = "exit"
    /\ t_fixes_failed' = fixes_failed
    /\ t_return_code' = IF fixes_failed THEN 1 ELSE t_return_code
    /\ UNCHANGED <<t_max_task, t_nfiles, t_next, t_queue, t_unfinished,
                   t_failed, t_lock, t_out, t_assert, t_put, t_acked,
                   w_pc, w_name, w_res, w_parser>>
    /\ UNCHANGED <<parserVars, callVars, dedupVars, essenceVars, recordVars,
                   bbVars, bbCallVars, findingsVars, orderVars>>

\* run_tidy: name = queue.get(), which waits while the queue is empty;
\* clang-tidy runs on the file, and the name joins failed_files when it
\* returns a status that is not zero.  No other thread reads the name or
\* what the tool gave, and failed_files is read after join() only.
WorkerTake(w, res) ==
    /\ w_pc[w] = "get"
    /\ t_queue # <<>>
    /\ w_name' = [w_name EXCEPT ![w] = Head(t_queue)]
    /\ t_queue' = Tail(t_queue)
    /\ w_res' = [w_res EXCEPT ![w] = <<res>>]
    /\ t_failed' = IF res.returncode # 0 THEN Append(t_failed, Head(t_queue))
                   ELSE t_failed
    /\ w_pc' = [w_pc EXCEPT ![w] = "lock"]
    /\ UNCHANGED <<t_main_pc, t_max_task, t_nfiles, t_next, t_unfinished,
                   t_return_code, t_lock, t_out, t_assert, t_put, t_acked,
                   t_fixes_failed, w_parser>>
    /\ UNCHANGED <<parserVars, callVars, dedupVars, essenceVars, recordVars,
                   bbVars, bbCallVars, findingsVars, orderVars>>

\* output.decode('utf-8') of what the worker got from the tool.
Decoded(w) == Utf8Decode(w_res[w][1].output)

\* parser.parse_string(output.decode('utf-8')): <<the parser after it>>, or
\* None when either call raises.
Parsed(w) ==
    IF Decoded(w) = None THEN None
    ELSE parse_string(w_parser[w], Decoded(w)[1])

\* What the worker does once it is inside `with lock`: the output is decoded
\* and parsed.  An exception leaves the with block, which releases the
\* lock, and ends the thread.
WorkerParse(w, holder) ==
    /\ t_assert' = (t_assert \/ (Decoded(w) # None /\ Parsed(w) = None))
    /\ \/ /\ Parsed(w) = None
          /\ w_pc' = [w_pc EXCEPT ![w] = "dead"]
          /\ UNCHANGED <<t_lock, w_parser>>
       \/ /\ Parsed(w) # None
          /\ w_pc' = [w_pc EXCEPT ![w] = "write"]
          /\ w_parser' = [w_parser EXCEPT ![w] = Parsed(w)[1]]
          /\ t_lock' = holder
    /\ UNCHANGED <<t_main_pc, t_max_task, t_nfiles, t_next, t_queue,
                   t_unfinished, t_failed, t_return_code, t_out, t_put,
                   t_acked, t_fixes_failed, w_name, w_res>>
    /\ UNCHANGED <<parserVars, callVars, dedupVars, essenceVars, recordVars,
                   bbVars, bbCallVars, findingsVars, orderVars>>

\* Variant of the entry of `with lock` that does not wait for the lock.
WorkerEnterNoLock(w) ==
    /\ w_pc[w] = "lock"
    /\ WorkerParse(w, w)

\* run_tidy: `with lock:` is entered, which waits until the lock is free,
\* and parser.parse_string(output.decode('utf-8')) is called.
WorkerEnter(w) ==
    /\ w_pc[w] = "lock"
    /\ t_lock = 0
    /\ WorkerParse(w, w)

\* run_tidy: sys.stdout.write of the invocation and the new diagnostics.
WorkerWrite(w) ==
    /\ w_pc[w] = "write"
    /\ t_out' = Append(t_out, [stream |-> "stdout", by |-> w,
                               name |-> w_name[w],
                               text |-> DiagsText(w_parser[w])])
    /\ w_pc' = [w_pc EXCEPT ![w] = "leave"]
    /\ UNCHANGED <<t_main_pc, t_max_task, t_nfiles, t_next, t_queue,
                   t_unfinished, t_failed, t_return_code, t_lock, t_assert,
                   t_put, t_acked, t_fixes_failed, w_name, w_res, w_parser>>
    /\ UNCHANGED <<parserVars, callVars, dedupVars, essenceVars, recordVars,
                   bbVars, bbCallVars, findingsVars, orderVars>>

\* run_tidy: parser.reset_parser(), sys.stderr.write of what the tool wrote
\* to stderr, if anything, and the end of the with block.
WorkerLeave(w) ==
    /\ w_pc[w] = "leave"
    /\ w_parser' = [w_parser EXCEPT ![w] = reset_parser(@)]
    /\ t_out' = IF Len(w_res[w][1].err) > 0
                THEN Append(t_out, [stream |-> "stderr", by |-> w,
                                    name |-> w_name[w],
                                    text |-> w_res[w][1].err])
                ELSE t_out
    /\ t_lock' = 0
    /\ w_pc' = [w_pc EXCEPT ![w] = "done"]
    /\ UNCHANGED <<t_main_pc, t_max_task, t_nfiles, t_next, t_queue,
                   t_unfinished, t_failed, t_return_code, t_assert, t_put,
                   t_acked, t_fixes_failed, w_name, w_res>>
    /\ UNCHANGED <<parserVars, callVars, dedupVars, essenceVars, recordVars,
                   bbVars, bbCallVars, findingsVars, orderVars>>

\* run_tidy: queue.task_done(), and the loop starts over; name, output and
\* err are not read again.
WorkerTaskDone(w) ==
    /\ w_pc[w] = "done"
    /\ t_unfinished' = t_unfinished - 1
    /\ t_acked' = t_acked \cup {w_name[w]}
    /\ w_pc' = [w_pc EXCEPT ![w] = "get"]
    /\ w_name' = [w_name EXCEPT ![w] = 0]
    /\ w_res' = [w_res EXCEPT ![w] = <<>>]
    /\ UNCHANGED <<t_main_pc, t_max_task, t_nfiles, t_next, t_queue,
                   t_failed, t_return_code, t_lock, t_out, t_assert, t_put,
                   t_fixes_failed, w_parser>>
    /\ UNCHANGED <<parserVars, callVars, dedupVars, essenceVars, recordVars,
                   bbVars, bbCallVars, findingsVars, orderVars>>

\* The steps of main.
MainStep ==
    \/ \E j \in TaskCounts, n \in 0..MaxFiles : MainStart(j, n)
    \/ MainPut
    \/ MainJoin
    \/ \E fixes_failed \in BOOLEAN : MainExit(fixes_failed)

\* The steps of one run_tidy thread.
WorkerStep(w) ==
    \/ \E res \in TidyResults : WorkerTake(w, res)
    \/ WorkerEnter(w)
    \/ WorkerWrite(w)
    \/ WorkerLeave(w)
    \/ WorkerTaskDone(w)

NextTidy ==
    \/ MainStep
    \/ \E w \in Workers : WorkerStep(w)

SpecTidy == Init /\ [][NextTidy]_vars

\* The steps of a thread outside the entry of `with lock`.
WorkerMoves(w) ==
    \/ \E res \in TidyResults : WorkerTake(w, res)
    \/ WorkerWrite(w)
    \/ WorkerLeave(w)
    \/ WorkerTaskDone(w)

\* The steps WorkerEnter(w) makes, told by what the thread waits for and
\* by where they leave it.
WorkerEnters(w) ==
    /\ w_pc[w] = "lock"
    /\ t_lock = 0
    /\ \E p \in {"write", "dead"} : w_pc' = [w_pc EXCEPT ![w] = p]

\* main and every thread it started get their turn: a thread that can take
\* a step takes one, and a thread that waits for the lock gets it when the
\* lock stays free.
SpecTidyFair ==
    /\ SpecTidy
    /\ WF_vars(MainStep)
    /\ \A w \in Workers : WF_vars(WorkerMoves(w)) /\ WF_w_pc(WorkerEnters(w))

\* ------------------------------------------------------------------------
\* Well-formedness of the state
\* ------------------------------------------------------------------------

TypeOK ==
    /\ Len(current_diag) <= 1
    /\ pc \in {"idle", "loop"}
    /\ pos \in 1..(Len(line_list) + 1)
    /\ calls \in 0..MaxCalls
    /\ raised \in BOOLEAN
    /\ dd_calls \in 0..MaxInserts
    /\ dd_ret \in BOOLEAN
    /\ de_eq \in BOOLEAN
    /\ bb_pc \in {"idle", "loop"}
    /\ bb_fed \in 0..Max({MaxBBLines, MaxLogLines})
    /\ bb_tagged \in 0..bb_fed
    /\ Len(bb_names) <= bb_fed
    /\ bb_header_fed \in BOOLEAN
    /\ t_main_pc \in {"start", "fill", "fixes", "exit"}
    /\ t_max_task \in TaskCounts \cup {0}
    /\ t_nfiles \in 0..MaxFiles
    /\ t_next \in 1..(t_nfiles + 1)
    /\ t_unfinished \in 0..MaxFiles
    /\ t_return_code \in {0, 1}
    /\ t_lock \in {0} \cup Workers
    /\ t_assert \in BOOLEAN
    /\ t_put \subseteq 1..MaxFiles
    /\ t_acked \subseteq t_put
    /\ \A w \in Workers :
          w_pc[w] \in {"off", "get", "lock", "write", "leave", "done", "dead"}
    /\ bb_calls \in 0..MaxCalls
    /\ Len(current_finding) <= 1
    /\ Len(current_finding_check) <= 1
    /\ Len(enabled_checks) <= Max({MaxChecks, MaxLogChecks})

\* ------------------------------------------------------------------------
\* Properties of Deduplication and DiagEssence
\* ------------------------------------------------------------------------

\* The five components of two fingerprints match.
SameComponents(e, f) ==
    /\ e.path = f.path
    /\ e.line = f.line
    /\ e.column = f.column
    /\ e.diag = f.diag
    /\ e.additional = f.additional

\* C1: insert_and_query(fp) returns True exactly when no fingerprint equal
\* to fp was inserted before, and then adds fp to the set; otherwise it
\* returns False and leaves the set as it was.  No call removes an element.
C1_InsertAndQuery ==
    dd_calls > 0 =>
        LET fp == EssenceOf(dd_in[1])
            before == \E x \in dd_hist : SameComponents(EssenceOf(x), fp)
        IN /\ dd_ret = ~before
           /\ dd_ret => dd_set = dd_prev \cup {fp}
           /\ ~dd_ret => dd_set = dd_prev
           /\ dd_prev \subseteq dd_set
           /\ \A x \in dd_hist : \E e \in dd_set : SameComponents(e, EssenceOf(x))

\* C1 witness: a second fingerprint was refused although it was built from
\* other arguments than every earlier one, and the set kept its elements.
C1_Witness ==
    /\ dd_calls >= 2
    /\ ~dd_ret
    /\ dd_in[1] \notin dd_hist
    /\ dd_set = dd_prev
    /\ dd_set # {}

\* C9: two fingerprints compare equal if and only if the hash of the path,
\* the line, the column, the hash of the first diagnostic line and the hash
\* of the additional text all match.
C9_EqualIffFiveComponents ==
    de_in # <<>> =>
        LET x == de_in[1]
            y == de_in[2]
        IN de_eq <=> /\ StrHash(x.path) = StrHash(y.path)
                     /\ x.line = y.line
                     /\ x.column = y.column
                     /\ StrHash(x.diag) = StrHash(y.diag)
                     /\ StrHash(x.additional_info) = StrHash(y.additional_info)

\* C9 witness: two fingerprints built from different arguments were compared
\* and found equal.
C9_Witness ==
    /\ de_in # <<>>
    /\ de_eq
    /\ de_in[1] # de_in[2]

\* Same path, line and column, but another message or additional text.
SameLocationOtherText(x, y) ==
    /\ x.path = y.path
    /\ x.line = y.line
    /\ x.column = y.column
    /\ x.diag # y.diag \/ x.additional_info # y.additional_info

\* Same path, line and column, but a message or an additional text of
\* another hash.
SameLocationOtherTextHash(x, y) ==
    /\ x.path = y.path
    /\ x.line = y.line
    /\ x.column = y.column
    /\ \/ StrHash(x.diag) # StrHash(y.diag)
       \/ StrHash(x.additional_info) # StrHash(y.additional_info)

\* C10 as stated: fingerprints of one location whose message text or
\* additional text differs have equal hashes, are unequal, and each is new
\* to the set on its first insertion.
C10_Original ==
    (dd_calls > 0 /\ \A x \in dd_hist : SameLocationOtherText(x, dd_in[1])) =>
        /\ \A x \in dd_hist :
              /\ EssenceHash(EssenceOf(x)) = EssenceHash(EssenceOf(dd_in[1]))
              /\ ~EssenceEq(EssenceOf(x), EssenceOf(dd_in[1]))
        /\ dd_ret

\* C10: fingerprints of one location whose message texts (or additional
\* texts) hash differently have equal hashes, are unequal, and each is new
\* to the set on its first insertion.
C10_SameLocationOtherTextHash ==
    (dd_calls > 0 /\ \A x \in dd_hist : SameLocationOtherTextHash(x, dd_in[1])) =>
        /\ \A x \in dd_hist :
              /\ EssenceHash(EssenceOf(x)) = EssenceHash(EssenceOf(dd_in[1]))
              /\ ~EssenceEq(EssenceOf(x), EssenceOf(dd_in[1]))
        /\ dd_ret

\* C10 witness: a fingerprint was accepted by a set that held another one of
\* the same location and hash.
C10_Witness ==
    /\ dd_calls >= 2
    /\ dd_hist # {}
    /\ \A x \in dd_hist : SameLocationOtherTextHash(x, dd_in[1])
    /\ dd_ret
    /\ \E e \in dd_prev : EssenceHash(e) = EssenceHash(EssenceOf(dd_in[1]))

\* ------------------------------------------------------------------------
\* Properties of the parser
\* ------------------------------------------------------------------------

\* The line is a header once its trailing whitespace is stripped.
IsHeader(l) == DiagReMatch(RStrip(l)) # None

\* The text "\n" + line for each of the lines i..j of ls, stripped.
RECURSIVE ContextText(_, _, _)
ContextText(ls, i, j) ==
    IF i > j THEN <<>>
    ELSE <<"\n">> \o RStrip(ls[i]) \o ContextText(ls, i + 1, j)

\* Last line of the block that the header at index i opens.
BlockEnd(ls, i) ==
    Max({j \in i..Len(ls) : \A k \in (i + 1)..j : ~IsHeader(ls[k])})

\* The diagnostic that the header at index i and its context lines describe.
BlockAt(ls, i) ==
    [diag_from_match(DiagReMatch(RStrip(ls[i])))
        EXCEPT !.additional = ContextText(ls, i + 1, BlockEnd(ls, i))]

\* The diagnostics of the lines i.. of ls, in the order of their headers.
RECURSIVE BlocksFrom(_, _)
BlocksFrom(ls, i) ==
    IF i > Len(ls) THEN <<>>
    ELSE (IF IsHeader(ls[i]) THEN <<BlockAt(ls, i)>> ELSE <<>>)
             \o BlocksFrom(ls, i + 1)

InputDiagnostics(ls) == BlocksFrom(ls, 1)

\* ds[k] has the fingerprint of no earlier element of ds and of no element
\* of seen.
FirstEncounter(ds, k, seen) ==
    /\ \A j \in 1..(k - 1) :
          ~SameComponents(get_essence(ds[j]), get_essence(ds[k]))
    /\ \A e \in seen : ~SameComponents(e, get_essence(ds[k]))

\* The first encounters among ds[k..], in order.
RECURSIVE FirstEncountersFrom(_, _, _)
FirstEncountersFrom(ds, k, seen) ==
    IF k > Len(ds) THEN <<>>
    ELSE (IF FirstEncounter(ds, k, seen) THEN <<ds[k]>> ELSE <<>>)
             \o FirstEncountersFrom(ds, k + 1, seen)

FirstEncounters(ds, seen) == FirstEncountersFrom(ds, 1, seen)

\* ls is a block (a header and its context lines) followed by itself.
DoubledBlock(ls) ==
    /\ Len(ls) >= 2
    /\ Len(ls) % 2 = 0
    /\ SubSeq(ls, 1, Len(ls) \div 2) = SubSeq(ls, Len(ls) \div 2 + 1, Len(ls))
    /\ IsHeader(ls[1])
    /\ \A k \in 2..(Len(ls) \div 2) : ~IsHeader(ls[k])

\* C2 as stated: after a parse call get_diags() holds every distinct
\* diagnostic of the input exactly once, in the order of first encounter;
\* a block repeated back to back yields exactly one entry, rendered as its
\* first occurrence.
C2_Original ==
    last = "eof" =>
        /\ get_diags = FirstEncounters(InputDiagnostics(line_list), {})
        /\ DoubledBlock(line_list) =>
              /\ Len(get_diags) = 1
              /\ DiagStr(get_diags[1]) = DiagStr(BlockAt(line_list, 1))

\* C2: after a parse call get_diags() holds every distinct diagnostic of the
\* input whose fingerprint the dedup set did not hold when the call began,
\* exactly once and in the order of first encounter; a block repeated back
\* to back yields exactly one entry, rendered as its first occurrence, if
\* its fingerprint was new to the set and none otherwise.
C2_FirstEncountersNewToSet ==
    last = "eof" =>
        /\ get_diags =
              FirstEncounters(InputDiagnostics(line_list), entry_dedup)
        /\ DoubledBlock(line_list) =>
              IF get_essence(BlockAt(line_list, 1)) \in entry_dedup
              THEN get_diags = <<>>
              ELSE /\ Len(get_diags) = 1
                   /\ DiagStr(get_diags[1]) = DiagStr(BlockAt(line_list, 1))

\* C2 witness: a header with a context line was given twice back to back to
\* a parser whose set was not empty, and one diagnostic came out.
C2_Witness ==
    /\ last = "eof"
    /\ DoubledBlock(line_list)
    /\ Len(line_list) = 4
    /\ entry_dedup # {}
    /\ Len(get_diags) = 1

\* C3: when the text of a parse call is the text of the call before it,
\* get_diags() is empty after the later call.
C3_SecondPassEmpty ==
    (last = "eof" /\ calls >= 2) => get_diags = <<>>

\* C3 witness: the second pass over a text with diagnostics has ended.
C3_Witness ==
    /\ last = "eof"
    /\ calls >= 2
    /\ Len(InputDiagnostics(line_list)) >= 2
    /\ dedup # {}
    /\ get_diags = <<>>

\* The step is one iteration of the for loop of _parse_lines.
LineStep == pc = "loop" /\ pos' = pos + 1

\* C4: a header that arrives while a diagnostic is in flight first finalizes
\* that diagnostic (fingerprint of all it accumulated, query of the set,
\* appended only if new) and then puts the diagnostic of the header in
\* flight.
C4_HeaderFinalizesInFlight ==
    [][(LineStep /\ IsHeader(line_list[pos]) /\ current_diag # None) =>
          LET fp == get_essence(current_diag[1])
          IN /\ dedup' = dedup \cup {fp}
             /\ uniq_diags' = IF fp \notin dedup
                              THEN Append(uniq_diags, current_diag[1])
                              ELSE uniq_diags
             /\ current_diag' # None
             /\ current_diag' =
                   <<diag_from_match(DiagReMatch(RStrip(line_list[pos])))>>]_vars

\* C4 witness: a later header of a text that began with a header was read,
\* and a diagnostic with context was stored.
C4_Witness ==
    /\ last = "header"
    /\ pos >= 4
    /\ IsHeader(line_list[1])
    /\ uniq_diags # <<>>
    /\ uniq_diags[Len(uniq_diags)].additional # <<>>
    /\ current_diag # None

\* C5: at the end of the input the diagnostic in flight is finalized as on a
\* new header: its fingerprint enters the set and it is appended iff the
\* fingerprint was new, so it is not lost.
C5_EndOfInputFinalizes ==
    [][(pc = "loop" /\ pc' = "idle" /\ current_diag # None) =>
          LET fp == get_essence(current_diag[1])
          IN /\ dedup' = dedup \cup {fp}
             /\ uniq_diags' = IF fp \notin dedup
                              THEN Append(uniq_diags, current_diag[1])
                              ELSE uniq_diags]_vars

\* C5 witness: the input ended and its last diagnostic was stored.
C5_Witness ==
    /\ last = "eof"
    /\ current_diag # None
    /\ uniq_diags # <<>>
    /\ uniq_diags[Len(uniq_diags)] = current_diag[1]
    /\ get_essence(current_diag[1]) \notin entry_dedup

\* C6: a line that is no header changes neither the output list nor the set
\* nor whether a diagnostic is in flight: it becomes one more additional
\* line of the diagnostic in flight, or is dropped when there is none.
C6_NonHeaderLine ==
    [][(LineStep /\ ~IsHeader(line_list[pos])) =>
          /\ uniq_diags' = uniq_diags
          /\ dedup' = dedup
          /\ pc' = pc
          /\ IF current_diag # None
             THEN current_diag' =
                     <<[current_diag[1] EXCEPT !.additional =
                           @ \o <<"\n">> \o RStrip(line_list[pos])]>>
             ELSE current_diag' = None]_vars

\* C6 witness: a context line was added to the second diagnostic of a text
\* while the first one is in the output list.
C6_Witness ==
    /\ last = "context"
    /\ current_diag # None
    /\ current_diag[1].additional = <<"\n", " ", "^">>
    /\ pos >= 4
    /\ uniq_diags # <<>>

\* C7: reset_parser() empties the output list and the diagnostic in flight
\* and keeps the set, and no step of the parser removes an element of it.
C7_ResetKeepsSet ==
    [][/\ last' = "reset" =>
             /\ uniq_diags' = <<>>
             /\ current_diag' = None
             /\ dedup' = dedup
       /\ dedup \subseteq dedup']_vars

\* C7 witness: a parser with diagnostics in its list and its set was reset.
C7_Witness ==
    /\ last = "reset"
    /\ Cardinality(dedup) >= 2
    /\ uniq_diags = <<>>
    /\ current_diag = None

\* C8: a parse call made while a diagnostic of an earlier call is in flight
\* raises AssertionError before a line is processed and changes nothing of
\* the parser.
C8_AssertCleanState ==
    [][(pc = "idle" /\ calls' = calls + 1 /\ current_diag # None) =>
          /\ raised'
          /\ pc' = "idle"
          /\ line_list' = line_list
          /\ pos' = pos
          /\ UNCHANGED parserVars]_vars

\* C8 witness: a call was refused and the diagnostics are still there.
C8_Witness ==
    /\ last = "assert"
    /\ raised
    /\ pc = "idle"
    /\ current_diag # None
    /\ uniq_diags # <<>>

\* ------------------------------------------------------------------------
\* Properties of DiagEssence: hash against equality
\* ------------------------------------------------------------------------

\* C11: two fingerprints that are equal under __eq__ have equal __hash__
\* values.
C11_EqualImpliesEqualHash ==
    (de_in # <<>> /\ de_eq) => de_hash[1] = de_hash[2]

\* C11 witness: two fingerprints of different paths were found equal, and
\* their hashes are equal.
C11_Witness ==
    /\ de_in # <<>>
    /\ de_eq
    /\ de_in[1].path # de_in[2].path
    /\ de_hash[1] = de_hash[2]

\* The arguments x and y differ in the field named and in no other.
OnlyLineDiffers(x, y) == x.line # y.line /\ [x EXCEPT !.line = y.line] = y

OnlyColumnDiffers(x, y) ==
    x.column # y.column /\ [x EXCEPT !.column = y.column] = y

OnlyPathDiffers(x, y) == x.path # y.path /\ [x EXCEPT !.path = y.path] = y

\* C12 as stated: fingerprints built from arguments that differ only in the
\* line, only in the column or only in the path are unequal.
C12_Original ==
    de_in # <<>> =>
        ((\/ OnlyLineDiffers(de_in[1], de_in[2])
          \/ OnlyColumnDiffers(de_in[1], de_in[2])
          \/ OnlyPathDiffers(de_in[1], de_in[2])) => ~de_eq)

\* C12: fingerprints built from arguments that differ only in the line,
\* only in the column, or only in the path with paths of different hashes,
\* are unequal.
C12_OneLocationFieldDiffers ==
    de_in # <<>> =>
        ((\/ OnlyLineDiffers(de_in[1], de_in[2])
          \/ OnlyColumnDiffers(de_in[1], de_in[2])
          \/ /\ OnlyPathDiffers(de_in[1], de_in[2])
             /\ StrHash(de_in[1].path) # StrHash(de_in[2].path)) => ~de_eq)

\* C12 witness: two fingerprints that differ only in the column were
\* compared and found unequal.
C12_Witness ==
    /\ de_in # <<>>
    /\ OnlyColumnDiffers(de_in[1], de_in[2])
    /\ ~de_eq

\* path hash + line + column, the number the hash is taken of.
LocationSum(x) == StrHash(x.path) + x.line + x.column

IsSingleHeader(text) ==
    /\ text # <<>>
    /\ \A k \in 1..Len(text) : text[k] # "\n"
    /\ DiagReMatch(text) # None

\* The digit string is the decimal rendering of its number.
NoLeadingZero(ds) == Len(ds) = 1 \/ ds[1] # "0"

\* The parse of a single line by a new parser has ended.
SingleParseEnded == calls = 1 /\ last = "eof" /\ entry_dedup = {}

\* uniq_diags is one record whose str() is the given text.
RendersAs(text) == Len(uniq_diags) = 1 /\ DiagStr(uniq_diags[1]) = text

\* C14 as stated: a single line that matches the header pattern, parsed by a
\* new parser and finalized, yields one record whose str() is the line.
C14_Original ==
    (SingleParseEnded /\ IsSingleHeader(input_text)) => RendersAs(input_text)

\* C14: a single line that matches the header pattern, has no trailing
\* whitespace and whose line and column numbers have no leading zeros, parsed
\* by a new parser and finalized, yields one record whose str() is the line.
C14_RoundTrip ==
    (/\ SingleParseEnded
     /\ IsSingleHeader(input_text)
     /\ RStrip(input_text) = input_text
     /\ NoLeadingZero(DiagReMatch(input_text)[2][1])
     /\ NoLeadingZero(DiagReMatch(input_text)[3][1]))
        => RendersAs(input_text)

\* C14 witness: a header whose path holds a colon and whose message holds
\* ": " was parsed and finalized, and the one record renders as the line.
C14_Witness ==
    /\ SingleParseEnded
    /\ input_text = HeaderText(<<"a", ":", "1">>, <<"1", "0">>, <<"2", "0">>,
                               Error, <<"n", ":", " ", "m">>)
    /\ RendersAs(input_text)

\* The line has the form  path:line:col: note: text
IsNoteLine(l) ==
    \E i \in 1..Len(l) :
        LET h == HeaderLayout(l, i)
        IN /\ LitAt(l, i + 1, <<":">>)
           /\ h.n1 >= 1
           /\ LitAt(l, h.c2, <<":">>)
           /\ h.n2 >= 1
           /\ LitAt(l, h.c3, <<":", " ", "n", "o", "t", "e", ":", " ">>)

\* Number of error/warning header lines among the first n lines of ls.
HeadersSeen(ls, n) == Cardinality({k \in 1..n : IsHeader(ls[k])})

RECURSIVE NewlineJoined(_)
NewlineJoined(ls) ==
    IF ls = <<>> THEN <<>>
    ELSE <<"\n">> \o Head(ls) \o NewlineJoined(Tail(ls))

\* The record d holds the lines added so far newline-joined, and its
\* fingerprint is the one built from that text.
HoldsNewlineJoined(d) ==
    /\ d.additional = NewlineJoined(dg_lines)
    /\ get_essence(d) = DiagEssence(dg_in[1].path, dg_in[1].line,
                                    dg_in[1].column, dg_in[1].diag,
                                    NewlineJoined(dg_lines))

\* C15: after the context lines l1..ln were added in that order the
\* additional text of a Diagnostic, of run-clang-tidy.py or of utility.py, is
\* "\n"+l1+...+"\n"+ln, the record renders as the header followed by the
\* lines, each on a line of its own, and its fingerprint is the one built
\* from that text.
C15_NewlineJoined ==
    dg_in # <<>> =>
        /\ HoldsNewlineJoined(dg[1])
        /\ DiagStr(dg[1]) =
              dg_in[1].path \o <<":">> \o IntToStr(dg_in[1].line) \o <<":">>
                  \o IntToStr(dg_in[1].column) \o <<":", " ">> \o dg_in[1].diag
                  \o NewlineJoined(dg_lines)
        /\ HoldsNewlineJoined(dg_util[1])

\* ------------------------------------------------------------------------
\* Properties of ParseBBOutput.parse_line
\* ------------------------------------------------------------------------

\* C17: lines that are no headers raise no error and produce nothing.  The
\* ParseClangTidyDiagnostics ends every call without an exception, with an
\* empty list, nothing in flight and its dedup set as it was; no line makes
\* parse_line of the ParseBBOutput fail, and its registry stays empty.
C17_NoiseProducesNothing ==
    /\ ~raised
    /\ uniq_diags = <<>>
    /\ current_diag = None
    /\ dedup = entry_dedup
    /\ dedup = {}
    /\ bb_last # "assert" => ~bb_raised
    /\ finding_checks(all_findings) = {}
    /\ current_finding = None

\* C17 witness: the one parser has ended a call on a text of two lines, the
\* other has read the check names and then a count of warnings.
C17_Witness ==
    /\ last = "eof"
    /\ Len(line_list) = 2
    /\ expect_warnings
    /\ bb_line = <<<<"1">> \o WarningsText>>
    /\ finding_checks(all_findings) = {}
    /\ uniq_diags = <<>>

\* The parser is in the state in which it awaits findings.
AwaitingFindings ==
    expect_warnings /\ ~expect_check_name /\ ~expect_enabled_checks

\* A step of the for loop of parse_lines; bb_line' holds the line it took.
BBLineStep == bb_pc = "loop" /\ bb_fed' = bb_fed + 1

\* The line reaches the diagnostic pattern and matches it, with a tag.
IsTaggedLine(l) ==
    /\ ~StartsWith(l, ApplyingFixesText)
    /\ DiagnosticRegexMatch(l) # None
    /\ DiagnosticRegexMatch(l)[4] # None

\* The line reaches the diagnostic pattern and matches it, without a tag.
IsUntaggedLine(l) ==
    /\ ~StartsWith(l, ApplyingFixesText)
    /\ DiagnosticRegexMatch(l) # None
    /\ DiagnosticRegexMatch(l)[4] = None

\* The line matches the noise pattern and not the diagnostic pattern.
IsNoiseLine(l) ==
    /\ DiagnosticRegexMatch(l) = None
    /\ \/ l = <<>>
       \/ StartsWith(l, SuppressedText)
       \/ StartsWith(l, UseHeaderFilterText)
       \/ StartsWith(l, ClangApplyText)
       \/ \E n \in 1..Len(l) :
             /\ \A k \in 1..n : IsDigit(l[k])
             /\ LitAt(l, n + 1, WarningsText)

\* The step registered the finding that accumulated before it, under the
\* check name remembered for it: that check counts one more finding and
\* holds a finding equal to it; every other check is as it was.
RegisteredAccumulated ==
    LET check == current_finding_check[1]
    IN /\ finding_checks(all_findings') = finding_checks(all_findings) \cup {check}
       /\ total_finding_count(all_findings', check)
             = total_finding_count(all_findings, check) + 1
       /\ \E f \in all_findings'[check].unique : FindingEq(f, current_finding[1])
       /\ unique_finding_count(all_findings', check)
             = unique_finding_count(all_findings, check)
               + (IF check \in DOMAIN all_findings
                     /\ \E f \in all_findings[check].unique :
                           FindingEq(f, current_finding[1])
                  THEN 0 ELSE 1)
       /\ \A c \in finding_checks(all_findings) \ {check} :
             all_findings'[c] = all_findings[c]

\* The step left the states and the list of enabled checks alone.
StateKept ==
    UNCHANGED <<expect_enabled_checks, expect_check_name, expect_warnings,
                enabled_checks>>

\* C18: in AwaitingFindings a matched line with a tag registers the finding
\* that accumulates, if one does, under the check name remembered for it,
\* whether or not an equal finding was registered before; afterwards the
\* accumulator holds a new finding of one diagnostic and the current check
\* name is that of the line.
C18_TaggedLineStartsFinding ==
    [][(BBLineStep /\ AwaitingFindings /\ IsTaggedLine(bb_line'[1])) =>
          (/\ ~bb_raised'
           /\ StateKept
           /\ IF current_finding # None THEN RegisteredAccumulated
              ELSE all_findings' = all_findings
           /\ current_finding' # None
           /\ Len(get_diagnostics(current_finding'[1])) = 1
           /\ get_diagnostics(current_finding'[1])[1].name
                 = DiagnosticRegexMatch(bb_line'[1])[5]
           /\ get_diagnostics(current_finding'[1])[1].code_hints = <<>>
           /\ current_finding_check' = DiagnosticRegexMatch(bb_line'[1])[5])
      ]_vars

\* C18 witness: a line tagged d closed a finding of check c that was equal
\* to one registered before: c counts two findings, one of them unique, and
\* d is the current check name.
C18_Witness ==
    /\ bb_last = "line"
    /\ IsTaggedLine(bb_line[1])
    /\ current_finding_check = <<<<"d">>>>
    /\ total_finding_count(all_findings, <<"c">>) = 2
    /\ unique_finding_count(all_findings, <<"c">>) = 1
    /\ total_finding_count(all_findings, <<"d">>) = 0

\* C19: in AwaitingFindings a line of known noise registers the finding that
\* accumulates under its check name and clears the accumulator and the
\* current check name; without a finding it changes nothing.
C19_NoiseLineRegisters ==
    [][(BBLineStep /\ AwaitingFindings /\ IsNoiseLine(bb_line'[1])) =>
          (/\ ~bb_raised'
           /\ StateKept
           /\ IF current_finding # None
              THEN /\ RegisteredAccumulated
                   /\ current_finding' = None
                   /\ current_finding_check' = None
              ELSE UNCHANGED bbVars)
      ]_vars

\* C19 witness: a count of warnings closed the finding of check c.
C19_Witness ==
    /\ bb_last = "line"
    /\ bb_line = <<<<"1">> \o WarningsText>>
    /\ current_finding = None
    /\ current_finding_check = None
    /\ total_finding_count(all_findings, <<"c">>) = 1

\* C20: in AwaitingFindings a matched line without a tag is appended to the
\* finding that accumulates as one more diagnostic without a check name; it
\* starts no finding and registers nothing, so every count is as it was.
\* Right after a tagged line the finding then holds two diagnostics; without
\* a finding the line is dropped.
C20_NoteLineAppends ==
    [][(BBLineStep /\ AwaitingFindings /\ IsUntaggedLine(bb_line'[1])) =>
          (/\ ~bb_raised'
           /\ StateKept
           /\ all_findings' = all_findings
           /\ current_finding_check' = current_finding_check
           /\ IF current_finding # None
              THEN LET old == get_diagnostics(current_finding[1])
                       new == get_diagnostics(current_finding'[1])
                   IN /\ current_finding' # None
                      /\ Len(new) = Len(old) + 1
                      /\ SubSeq(new, 1, Len(old)) = old
                      /\ new[Len(new)].name = None
                      /\ new[Len(new)].diagnostic
                            = DiagnosticRegexMatch(bb_line'[1])[3][1]
                      /\ new[Len(new)].code_hints = <<>>
                      /\ (bb_line # <<>> /\ IsTaggedLine(bb_line[1]))
                            => Len(new) = 2
              ELSE current_finding' = None)
      ]_vars

\* C20 witness: a note came right after a tagged line, and the finding holds
\* two diagnostics, the second without a check name.
C20_Witness ==
    /\ bb_last = "line"
    /\ IsUntaggedLine(bb_line[1])
    /\ current_finding # None
    /\ Len(get_diagnostics(current_finding[1])) = 2
    /\ get_diagnostics(current_finding[1])[2].name = None
    /\ get_diagnostics(current_finding[1])[1].name = <<<<"c">>>>
    /\ finding_checks(all_findings) = {}

\* The line reaches both patterns and matches neither.
IsHintLine(l) ==
    /\ ~StartsWith(l, ApplyingFixesText)
    /\ DiagnosticRegexMatch(l) = None
    /\ ~IsNoiseLine(l)

\* C21: in AwaitingFindings a line that matches neither the diagnostic
\* pattern nor the noise pattern becomes a code hint of the last diagnostic
\* of the finding that accumulates; the other diagnostics, their number, the
\* registry and the current check name are as they were.  Without a finding
\* the line is dropped.
C21_HintGoesToLastDiagnostic ==
    [][(BBLineStep /\ AwaitingFindings /\ IsHintLine(bb_line'[1])) =>
          (/\ ~bb_raised'
           /\ StateKept
           /\ all_findings' = all_findings
           /\ current_finding_check' = current_finding_check
           /\ IF current_finding # None
              THEN LET old == get_diagnostics(current_finding[1])
                       new == get_diagnostics(current_finding'[1])
                   IN /\ current_finding' # None
                      /\ Len(new) = Len(old)
                      /\ \A k \in 1..(Len(old) - 1) : new[k] = old[k]
                      /\ new[Len(old)] =
                            [old[Len(old)] EXCEPT !.code_hints =
                                @ \o bb_line'[1] \o <<"\n">>]
              ELSE current_finding' = None)
      ]_vars

\* C21 witness: a hint came after a tagged line and a note; the note holds
\* the hint and the tagged diagnostic holds none.
C21_Witness ==
    /\ bb_last = "line"
    /\ IsHintLine(bb_line[1])
    /\ current_finding # None
    /\ Len(get_diagnostics(current_finding[1])) = 2
    /\ get_diagnostics(current_finding[1])[1].code_hints = <<>>
    /\ get_diagnostics(current_finding[1])[2].code_hints
          = bb_line[1] \o <<"\n">>
    /\ get_diagnostics(current_finding[1])[2].name = None

\* The number of findings that accumulate: one or none.
Accumulating(finding) == IF finding # None THEN 1 ELSE 0

\* C22: the registry changes only on a step that takes a tagged line or a
\* noise line while a finding accumulates, and such a step registers that
\* finding, once.  The end of the input registers nothing and leaves the
\* accumulator as it is, so that the registry always counts the tagged lines
\* taken but for the one whose finding still accumulates.
C22_RegisteredOnlyWhenFollowed ==
    [][/\ (all_findings' # all_findings) =>
             (/\ BBLineStep /\ AwaitingFindings /\ current_finding # None
              /\ IsTaggedLine(bb_line'[1]) \/ IsNoiseLine(bb_line'[1]))
       /\ (/\ BBLineStep /\ AwaitingFindings /\ current_finding # None
           /\ IsTaggedLine(bb_line'[1]) \/ IsNoiseLine(bb_line'[1]))
             => (/\ RegisteredAccumulated
                 /\ total_finding_count_all(all_findings')
                       = total_finding_count_all(all_findings) + 1)
       /\ (bb_pc = "loop" /\ bb_pc' = "idle" /\ ~bb_raised')
             => UNCHANGED <<all_findings, current_finding>>
       /\ total_finding_count_all(all_findings') + Accumulating(current_finding')
             = bb_tagged'
      ]_vars

\* C22 witness: the input ended after two tagged lines; the finding of the
\* first is registered, that of the second still accumulates and is counted
\* nowhere.
C22_Witness ==
    /\ bb_last = "return"
    /\ bb_tagged = 2
    /\ current_finding # None
    /\ current_finding_check = <<<<"d">>>>
    /\ total_finding_count_all(all_findings) = 1
    /\ unique_finding_count_all(all_findings) = 1
    /\ total_finding_count(all_findings, <<"d">>) = 0
    /\ unique_finding_count(all_findings, <<"d">>) = 0

\* The names a ParseBBOutput took from the preamble, trimmed, in the order
\* they came.
TrimmedNames == [i \in 1..Len(bb_names) |-> Strip(bb_names[i])]

\* C23: in a log that holds the same tagged diagnostic of one check time
\* and again, every occurrence followed by a noise line, the registry counts
\* for that check as many findings as occurrences were ended by their noise
\* line, and one unique finding as soon as there is any; the enabled checks
\* are the names of the preamble in their order.
C23_RepeatedDiagnosticCounts ==
    LET k == bb_tagged - Accumulating(current_finding)
    IN /\ total_finding_count(all_findings, <<"c">>) = k
       /\ unique_finding_count(all_findings, <<"c">>) = (IF k > 0 THEN 1 ELSE 0)
       /\ total_finding_count_all(all_findings) = k
       /\ get_enabled_checks = TrimmedNames

\* C23 witness: the preamble named c and d, and the diagnostic of c came
\* twice, followed by a noise line both times.
C23_Witness ==
    /\ bb_last = "line"
    /\ bb_line[1] \in LogNoiseLines
    /\ bb_tagged = 2
    /\ current_finding = None
    /\ get_enabled_checks = <<<<"c">>, <<"d">>>>
    /\ total_finding_count(all_findings, <<"c">>) = 2
    /\ unique_finding_count(all_findings, <<"c">>) = 1

\* The state before the line "Enabled checks:".
AwaitingChecksHeader ==
    expect_enabled_checks /\ ~expect_check_name /\ ~expect_warnings

\* The state in which the check names are collected.
CollectingCheckNames ==
    expect_check_name /\ ~expect_enabled_checks /\ ~expect_warnings

\* C24: a ParseBBOutput that has taken no line is in AwaitingChecksHeader.
\* In that state the line "Enabled checks:" moves the parser to
\* CollectingCheckNames, and every other line, be it a diagnostic or a name,
\* leaves every field as it was.
C24_HeaderOnlyLeavesStart ==
    [][/\ (bb_fed = 0) => AwaitingChecksHeader
       /\ (BBLineStep /\ AwaitingChecksHeader) =>
             (/\ ~bb_raised'
              /\ IF bb_line'[1] = EnabledChecksText
                 THEN /\ CollectingCheckNames'
                      /\ UNCHANGED <<enabled_checks, current_finding,
                                     current_finding_check, all_findings>>
                 ELSE UNCHANGED bbVars)
      ]_vars

\* C24 witness: two lines, the second the name of a check, came before the
\* line "Enabled checks:" and left nothing.
C24_Witness ==
    /\ bb_last = "line"
    /\ bb_fed = 2
    /\ bb_line = <<<<" ", "c">>>>
    /\ bb_tagged = 0
    /\ AwaitingChecksHeader
    /\ get_enabled_checks = <<>>
    /\ current_finding = None
    /\ finding_checks(all_findings) = {}

\* C25: in CollectingCheckNames a line that is not empty is appended,
\* trimmed, to the enabled checks and the state is kept; the empty line moves
\* the parser to AwaitingFindings and adds nothing.  In no other state do
\* the enabled checks change, so they are always the trimmed lines that came
\* between "Enabled checks:" and the first empty line, in their order.
C25_NamesCollectedInOrder ==
    [][/\ (BBLineStep /\ CollectingCheckNames) =>
             (/\ ~bb_raised'
              /\ UNCHANGED <<current_finding, current_finding_check,
                             all_findings>>
              /\ IF bb_line'[1] # <<>>
                 THEN /\ get_enabled_checks'
                            = Append(get_enabled_checks, Strip(bb_line'[1]))
                      /\ CollectingCheckNames'
                 ELSE /\ get_enabled_checks' = get_enabled_checks
                      /\ AwaitingFindings')
       /\ ~CollectingCheckNames => get_enabled_checks' = get_enabled_checks
       /\ get_enabled_checks' = TrimmedNames'
      ]_vars

\* C25 witness: the names c and d were collected from the lines " c " and
\* "d", and a later line that reads like a name left them as they were.
C25_Witness ==
    /\ bb_last = "line"
    /\ AwaitingFindings
    /\ bb_names = <<<<" ", "c">>, <<"d">>>>
    /\ get_enabled_checks = <<<<"c">>, <<"d">>>>
    /\ bb_line = <<<<" ", "c">>>>

\* C26: in AwaitingFindings parse_line returns False for a line that starts
\* with "Applying fixes ..." and True for every other line; the line that
\* starts with "Applying fixes ..." changes no field of the parser: the
\* finding that accumulates is neither registered nor given the line.
C26_ApplyingFixesEndsContent ==
    [][(BBLineStep /\ AwaitingFindings) =>
          (/\ ~bb_raised'
           /\ bb_ret' = ~StartsWith(bb_line'[1], ApplyingFixesText)
           /\ StartsWith(bb_line'[1], ApplyingFixesText) => UNCHANGED bbVars)
      ]_vars

\* C26 witness: "Applying fixes ..." came while a finding accumulated; the
\* call returned False, the finding is as it was and nothing is registered.
C26_Witness ==
    /\ bb_last = "line"
    /\ bb_line = <<ApplyingFixesText>>
    /\ bb_ret = FALSE
    /\ AwaitingFindings
    /\ bb_tagged = 1
    /\ current_finding # None
    /\ Len(get_diagnostics(current_finding[1])) = 1
    /\ get_diagnostics(current_finding[1])[1].code_hints = <<>>
    /\ finding_checks(all_findings) = {}

\* The step took a line in AwaitingFindings from which parse_line built a
\* CheckDiagnostic: a matched line with a tag, or one without a tag while
\* a finding accumulates.
BuiltDiagnostic ==
    /\ BBLineStep
    /\ AwaitingFindings
    /\ \/ IsTaggedLine(bb_line'[1])
       \/ IsUntaggedLine(bb_line'[1]) /\ current_finding # None

\* C30: the CheckDiagnostic built from a line has the keyword of the line
\* (error, warning or note) as its severity, the text before the keyword as
\* its location and the message as its text, so that its description starts
\* with the location, then the severity, then the text.
C30_FieldsFollowLine ==
    [][BuiltDiagnostic =>
          LET g == DiagnosticRegexMatch(bb_line'[1])
              diags == get_diagnostics(current_finding'[1])
              d == diags[Len(diags)]
          IN /\ d.severity \in {Error, Warning, Note}
             /\ d.severity = g[2][1]
             /\ d.location = g[1][1]
             /\ d.diagnostic = g[3][1]
             /\ StartsWith(get_description(d),
                           g[1][1] \o <<":", " ">> \o g[2][1] \o <<":", " ">>
                               \o g[3][1])
      ]_vars

\* The number of findings the history holds for a check.
RegisteredCount(hist, check) ==
    Cardinality({i \in 1..Len(hist) : hist[i][1] = check})

\* The texts of the findings the history holds for a check.
RegisteredTexts(hist, check) ==
    {FindingText(hist[i][2]) : i \in {k \in 1..Len(hist) : hist[k][1] = check}}

\* The sum of the values of a function over a set of its arguments.
RECURSIVE SumOf(_, _)
SumOf(f, S) ==
    IF S = {} THEN 0
    ELSE LET x == CHOOSE y \in S : TRUE IN f[x] + SumOf(f, S \ {x})

\* The names that can be asked for.
AskedNames == {n[1] : n \in QueryNames \ {None}}

\* A register_finding call was made in the step.
RegisterStep == Len(fr_hist') = Len(fr_hist) + 1

\* C27: register_finding(check, finding) adds one to the total count of
\* check, whether or not an equal finding is there, makes check an entry,
\* leaves an equal finding in its unique set and every other check as it
\* was.  The counts asked for without a name are the sums over all checks of
\* the registered findings and of their different texts; with a name they
\* are those of the check, 0 and 0 for a name that was never registered.
C27_RegisterCounts ==
    [][/\ RegisterStep =>
             LET check == fr_arg'[1]
                 finding == fr_arg'[2]
             IN /\ total_finding_count(fr_reg', check)
                      = total_finding_count(fr_reg, check) + 1
                /\ check \in finding_checks(fr_reg')
                /\ \E f \in fr_reg'[check].unique : FindingEq(f, finding)
                /\ unique_finding_count(fr_reg', check)
                      = Cardinality(RegisteredTexts(fr_hist', check))
                /\ \A c \in finding_checks(fr_reg) \ {check} :
                      fr_reg'[c] = fr_reg[c]
       /\ (fr_op' = "query") =>
             fr_ret' =
                IF fr_arg'[1] = None
                THEN <<SumOf([c \in AskedNames |->
                                RegisteredCount(fr_hist', c)], AskedNames),
                       SumOf([c \in AskedNames |->
                                Cardinality(RegisteredTexts(fr_hist', c))],
                             AskedNames)>>
                ELSE <<RegisteredCount(fr_hist', fr_arg'[1][1]),
                       Cardinality(RegisteredTexts(fr_hist', fr_arg'[1][1]))>>
      ]_vars

\* C27 witness: two findings of equal text that are not the same object were
\* registered under one check and a third under another; without a name the
\* total count is 3 and the unique count 2.
C27_Witness ==
    /\ fr_op = "query"
    /\ fr_arg = <<None>>
    /\ fr_ret = <<3, 2>>
    /\ Len(fr_hist) = 3
    /\ fr_hist[1][1] = fr_hist[2][1]
    /\ fr_hist[1][2] # fr_hist[2][2]
    /\ FindingEq(fr_hist[1][2], fr_hist[2][2])
    /\ fr_hist[3][1] # fr_hist[1][1]

\* C28: whatever was registered and asked for, a check is an entry of the
\* registry if and only if a finding was registered for it, asking for a
\* name makes no entry, no total count gets smaller, and every entry has at
\* least one unique finding and no more unique findings than findings.
C28_RegistryInvariants ==
    [][/\ \A name \in AskedNames :
             /\ name \in finding_checks(fr_reg')
                   <=> RegisteredCount(fr_hist', name) > 0
             /\ total_finding_count(fr_reg', name)
                   >= total_finding_count(fr_reg, name)
             /\ name \in finding_checks(fr_reg') =>
                   /\ 1 <= unique_finding_count(fr_reg', name)
                   /\ unique_finding_count(fr_reg', name)
                         <= total_finding_count(fr_reg', name)
       /\ finding_checks(fr_reg') \subseteq AskedNames
       /\ ~RegisterStep => finding_checks(fr_reg') = finding_checks(fr_reg)
      ]_vars

\* C28 witness: the counts of a name that was never registered were asked
\* for; they are 0, the name is no entry, and the check that was registered
\* three times holds two unique findings.
C28_Witness ==
    /\ fr_op = "query"
    /\ fr_arg = <<<<<<"b">>>>>>
    /\ fr_ret = <<0, 0>>
    /\ finding_checks(fr_reg) = {<<"c">>}
    /\ total_finding_count(fr_reg, <<"c">>) = 3
    /\ unique_finding_count(fr_reg, <<"c">>) = 2

\* The second finding holds the two diagnostics of the first, which are not
\* the same, the other way round.
SameDiagnosticsOtherOrder(f, g) ==
    /\ Len(f) = 2
    /\ f[1] # f[2]
    /\ g = <<f[2], f[1]>>

\* The sequence holds one finding for each of the texts of f and g, the
\* least text first.
SortedByText(sorted, f, g) ==
    /\ {FindingText(sorted[i]) : i \in 1..Len(sorted)}
          = {FindingText(f), FindingText(g)}
    /\ \A i \in 1..Len(sorted) : sorted[i] \in {f, g}
    /\ \A i \in 1..Len(sorted), j \in 1..Len(sorted) :
          i < j => TextLess(FindingText(sorted[i]), FindingText(sorted[j]))

\* What holds of two findings whatever their diagnostics: they are equal,
\* with equal hashes, if and only if their texts are equal; no finding is
\* less than itself; at most one of two is less than the other; and
\* findings_for_check gives the unique findings of a check, the least text
\* first.
TextDecides(f, g) ==
    /\ (fo_eq /\ fo_hash[1] = fo_hash[2]) <=> (FindingText(f) = FindingText(g))
    /\ ~fo_lt[3]
    /\ ~(fo_lt[1] /\ fo_lt[2])
    /\ fo_eq <=> (~fo_lt[1] /\ ~fo_lt[2])
    /\ SortedByText(fo_sorted, f, g)

\* The statement of C29 as it was made: the text decides, and two findings
\* of the same two diagnostics in different orders are never equal.
C29_Original ==
    fo_in # <<>> =>
        /\ TextDecides(fo_in[1], fo_in[2])
        /\ SameDiagnosticsOtherOrder(fo_in[1], fo_in[2]) => ~fo_eq

\* C29: two findings are equal, with equal hashes, if and only if the texts
\* of their diagnostics, put together in order, are equal; no finding is
\* less than itself, and findings_for_check gives the unique findings of a
\* check with the least text first.  The same two diagnostics in the other
\* order give an unequal finding whenever the two orders read differently.
C29_TextDecides ==
    fo_in # <<>> =>
        /\ TextDecides(fo_in[1], fo_in[2])
        /\ (/\ SameDiagnosticsOtherOrder(fo_in[1], fo_in[2])
            /\ get_full_text(fo_in[1][1]) \o get_full_text(fo_in[1][2])
                  # get_full_text(fo_in[1][2]) \o get_full_text(fo_in[1][1]))
             => ~fo_eq

\* C29 witness: a warning with its note, and the note with the warning
\* after it: the two are unequal, the one that begins with the note is the
\* lesser, and findings_for_check gives it first.
C29_Witness ==
    /\ fo_in = <<add_diagnostic(FindingDiagnostic(WarningDiag), NoteDiag),
                 add_diagnostic(FindingDiagnostic(NoteDiag), WarningDiag)>>
    /\ ~fo_eq
    /\ fo_lt = <<FALSE, TRUE, FALSE>>
    /\ fo_sorted = <<fo_in[2], fo_in[1]>>

\* ------------------------------------------------------------------------
\* Properties of the parsers across calls
\* ------------------------------------------------------------------------

\* The text of the last call that entered its loop held a header line, and
\* the parser was not reset since that call returned.
HeaderSinceReset ==
    /\ last \in {"eof", "assert"}
    /\ \E k \in 1..Len(line_list) : IsHeader(line_list[k])

\* C31: when a parse call has returned, a diagnostic is in flight if and
\* only if the text of the call held a header line; a later call without a
\* reset in between is refused exactly in that case, and is accepted after
\* texts without a header line and after a reset.
C31_InFlightAfterReturn ==
    [][/\ (pc = "loop" /\ pc' = "idle") =>
             (current_diag' # None
                 <=> \E k \in 1..Len(line_list) : IsHeader(line_list[k]))
       /\ (pc' = "idle") =>
             (current_diag' # None
                 <=> /\ last' \in {"eof", "assert"}
                     /\ \E k \in 1..Len(line_list') : IsHeader(line_list'[k]))
       /\ (pc = "idle" /\ calls' = calls + 1) =>
             (raised' <=> HeaderSinceReset)
      ]_vars

\* C31 witness: the first call was given a line that is no header and then
\* a header, and the second call, made without a reset, was refused.
C31_Witness ==
    /\ last = "assert"
    /\ raised
    /\ calls = 2
    /\ Len(line_list) = 2
    /\ ~IsHeader(line_list[1])
    /\ IsHeader(line_list[2])
    /\ current_diag # None
    /\ Len(uniq_diags) = 1

\* The line is one of the noise lines of clang-tidy: a count of warnings, a
\* line on suppressed warnings, or the like.
IsToolNoise(l) == l # <<>> /\ ~IsHeader(l) /\ IsNoiseLine(RStrip(l))

\* C32: a noise line of clang-tidy that comes while a diagnostic is in
\* flight becomes an additional line of it like any other line that is no
\* header: the text of the line is in the rendering of the diagnostic and
\* under the hash of the additional text of its fingerprint, and the
\* diagnostic is stored with it at the end of the input.
C32_NoiseJoinsLastDiagnostic ==
    [][/\ (LineStep /\ IsToolNoise(line_list[pos]) /\ current_diag # None) =>
             LET line == RStrip(line_list[pos])
                 old == current_diag[1]
                 new == current_diag'[1]
             IN /\ current_diag' # None
                /\ new = [old EXCEPT !.additional = @ \o <<"\n">> \o line]
                /\ DiagStr(new) = DiagStr(old) \o <<"\n">> \o line
                /\ get_essence(new).additional
                      = StrHash(old.additional \o <<"\n">> \o line)
       /\ (pc = "loop" /\ pc' = "idle" /\ current_diag # None
              /\ get_essence(current_diag[1]) \notin dedup) =>
             uniq_diags' = Append(uniq_diags, current_diag[1])
      ]_vars

\* C32 witness: the input was a header and a count of warnings; the stored
\* diagnostic renders with the count as its second line.
C32_Witness ==
    /\ last = "eof"
    /\ Len(line_list) = 2
    /\ line_list[2] = <<"1">> \o WarningsText
    /\ Len(uniq_diags) = 1
    /\ uniq_diags[1].additional = <<"\n", "1">> \o WarningsText
    /\ DiagStr(uniq_diags[1]) = JoinLines(line_list)

\* The Diagnostic of run-clang-tidy.py after the lines ls were added to d.
RECURSIVE AddAll(_, _)
AddAll(d, ls) ==
    IF ls = <<>> THEN d ELSE AddAll(add_additional_line(d, Head(ls)), Tail(ls))

\* The Diagnostic of utility.py after the lines ls were added to d.
RECURSIVE AddAllUtility(_, _)
AddAllUtility(d, ls) ==
    IF ls = <<>> THEN d
    ELSE AddAllUtility(add_additional_line_utility(d, Head(ls)), Tail(ls))

\* The sequences of lines a Diagnostic can be given.
LineSequences == UNION {[1..k -> AdditionalLines] : k \in 0..MaxLines}

\* The Diagnostic of the header x, before any line was added.
HeaderOnly(x) == Diagnostic(x.path, x.line, x.column, x.diag)

\* C33: a diagnostic of the same header that was given another sequence of
\* lines has another additional text, be it a Diagnostic of
\* run-clang-tidy.py or one of utility.py.
C33_AccumulationInjective ==
    dg_in # <<>> =>
        \A ls \in LineSequences :
            ls # dg_lines =>
                /\ AddAll(HeaderOnly(dg_in[1]), ls).additional
                      # dg[1].additional
                /\ AddAllUtility(HeaderOnly(dg_in[1]), ls).additional
                      # dg_util[1].additional

\* The place of the state in the order AwaitingChecksHeader,
\* CollectingCheckNames, AwaitingFindings; 0 when the flags are those of
\* none of the three.
StateRank ==
    IF AwaitingChecksHeader THEN 1
    ELSE IF CollectingCheckNames THEN 2
    ELSE IF AwaitingFindings THEN 3
    ELSE 0

\* C34: exactly one of the three flags is set, before and after every
\* step; a step keeps the state or moves it one place forward, and no line
\* leaves AwaitingFindings, the line "Enabled checks:" included.
C34_OneStateForwardOnly ==
    [][/\ StateRank # 0
       /\ StateRank' # 0
       /\ StateRank' \in {StateRank, StateRank + 1}
       /\ (BBLineStep /\ AwaitingFindings) => AwaitingFindings'
      ]_vars

\* C34 witness: a second line "Enabled checks:" came in AwaitingFindings and
\* the parser is still there, with the names it had.
C34_Witness ==
    /\ bb_last = "line"
    /\ bb_line = <<EnabledChecksText>>
    /\ bb_fed = 4
    /\ AwaitingFindings
    /\ Len(get_enabled_checks) = 1
    /\ current_finding = None

\* C35: in every state of a ParseBBOutput the total counts of all checks,
\* plus one when a finding accumulates, add up to the number of tagged
\* lines taken in AwaitingFindings: every finding is counted once, in the
\* registry or as the one that accumulates.
C35_FindingsAccountedFor ==
    total_finding_count_all(get_findings) + Accumulating(current_finding)
        = bb_tagged

\* C35 witness: three tagged lines were taken, two of check c with the same
\* text and one of check d, and a noise line ended the last: the registry
\* counts three findings, two of them unique, and none accumulates.
C35_Witness ==
    /\ bb_tagged = 3
    /\ current_finding = None
    /\ total_finding_count_all(get_findings) = 3
    /\ unique_finding_count_all(get_findings) = 2
    /\ total_finding_count(get_findings, <<"c">>) = 2
    /\ total_finding_count(get_findings, <<"d">>) = 1

\* C36: in every state of a ParseBBOutput the accumulating finding is set
\* iff the current check name is set, the name is then not empty and the
\* parser is in AwaitingFindings; so no parse_line call fails an assertion,
\* and the only assertion that fails is the one of the start state at the
\* entry of parse_lines.
C36_FindingIffCheckName ==
    /\ current_finding # None <=> current_finding_check # None
    /\ current_finding # None =>
          AwaitingFindings /\ Truthy(current_finding_check)
    /\ bb_raised => bb_last = "assert"

\* C36 witness: two tagged lines and a noise line were taken; the second
\* tagged line and the noise line each found a finding with its check name
\* and registered it, and neither call failed.
C36_Witness ==
    /\ bb_last = "line"
    /\ ~bb_raised
    /\ bb_tagged = 2
    /\ bb_line # <<>> /\ IsNoiseLine(bb_line[1])
    /\ current_finding = None
    /\ current_finding_check = None
    /\ total_finding_count_all(get_findings) = 2

\* A call of parse_lines (parse_string, parse_file) is made.
BBCallStep == bb_pc = "idle" /\ bb_calls' = bb_calls + 1

\* C37: a call of parse_lines made after a line "Enabled checks:" was taken
\* fails the assertion of the start state before it takes a line and leaves
\* the enabled checks, the accumulator and the registry as they were; a call
\* made before such a line was taken enters its loop.
C37_CallsOnlyInStartState ==
    [][BBCallStep =>
          IF bb_header_fed
          THEN /\ bb_raised' /\ bb_last' = "assert" /\ bb_pc' = "idle"
               /\ bb_fed' = bb_fed
               /\ UNCHANGED bbVars
          ELSE /\ ~bb_raised' /\ bb_pc' = "loop"
               /\ UNCHANGED bbVars
      ]_vars

\* C37 witness: the second call came after the first had taken the line
\* "Enabled checks:", a name, the empty line and a tagged line; it failed
\* and the name and the accumulating finding are still there.
C37_Witness ==
    /\ bb_last = "assert"
    /\ bb_raised
    /\ bb_calls = 2
    /\ bb_header_fed
    /\ bb_fed = 4
    /\ Len(get_enabled_checks) = 1
    /\ current_finding # None
    /\ bb_tagged = 1

\* ------------------------------------------------------------------------
\* Properties of run_tidy and main
\* ------------------------------------------------------------------------

\* The worker is between its parse_string call and the end of the with
\* block.
InCritical(w) == w_pc[w] \in {"write", "leave"}

\* The writes made to sys.stdout, in order.
StdoutWrites == SelectSeq(t_out, LAMBDA c : c.stream = "stdout")

\* C38: every run_tidy thread has a parser and a deduplication of its own,
\* and parses, writes and resets as one critical section under the lock.
\* So no parse_string call fails the assertion of a clean state: outside the
\* critical section every parser has nothing in flight and an empty list.
\* At most one thread is inside, and it holds the lock.  What a file sent to
\* stderr comes right after what it sent to stdout, and a thread that has
\* written to stdout and not yet left made the last write.  A thread prints
\* a diagnostic once; two threads each print it.
C38_CriticalSectionWhole ==
    /\ ~t_assert
    /\ \A w \in Workers :
          ~InCritical(w) => /\ w_parser[w].current_diag = None
                            /\ w_parser[w].uniq_diags = <<>>
    /\ \A w \in Workers : InCritical(w) => t_lock = w
    /\ t_lock # 0 => InCritical(t_lock)
    /\ \A i \in 1..Len(t_out) :
          t_out[i].stream = "stderr" =>
             /\ i > 1
             /\ t_out[i - 1].stream = "stdout"
             /\ t_out[i - 1].name = t_out[i].name
    /\ \A w \in Workers :
          w_pc[w] = "leave" =>
             /\ t_out[Len(t_out)].stream = "stdout"
             /\ t_out[Len(t_out)].name = w_name[w]
    /\ \A i, k \in 1..Len(StdoutWrites) :
          (i < k /\ StdoutWrites[i].text # <<>>
                 /\ StdoutWrites[i].text = StdoutWrites[k].text)
             => StdoutWrites[i].by # StdoutWrites[k].by

\* C38 witness: three files were written out.  The first thread printed the
\* warning of the first, the other thread printed the same warning of the
\* second and what the tool had sent to stderr, and the first thread parsed
\* the third, whose warning it had printed before.
C38_Witness ==
    /\ Len(t_out) = 4
    /\ Len(StdoutWrites) = 3
    /\ t_out[3].stream = "stderr"
    /\ StdoutWrites[1].by = StdoutWrites[3].by
    /\ StdoutWrites[1].by # StdoutWrites[2].by
    /\ StdoutWrites[1].text # <<>>
    /\ StdoutWrites[2].text = StdoutWrites[1].text
    /\ StdoutWrites[3].text = <<>>
    /\ w_res[StdoutWrites[3].by] # <<>>
    /\ w_res[StdoutWrites[3].by][1].output # <<>>
    /\ ~t_assert

\* The names sys.stdout was given a block for, in order.
WrittenNames == [i \in 1..Len(StdoutWrites) |-> StdoutWrites[i].name]

\* No file was written out twice, task_done was called for files that were
\* written out only, and after sys.exit the return code is 1 exactly when a
\* clang-tidy run returned a status that is not zero or the fixes failed.
ProcessedOnce ==
    /\ \A i, k \in 1..Len(WrittenNames) :
          WrittenNames[i] = WrittenNames[k] => i = k
    /\ \A n \in t_acked : \E i \in 1..Len(WrittenNames) : WrittenNames[i] = n
    /\ t_main_pc = "exit" =>
          (t_return_code = 1 <=> (Len(t_failed) > 0 \/ t_fixes_failed))

\* C39: under fair scheduling of main and the threads, every name main has
\* put on the queue is in the end acknowledged with task_done, join()
\* returns and main exits; every file is written out once, and the return
\* code is 1 exactly when a clang-tidy run returned a status that is not
\* zero or exporting or applying the fixes failed.
C39_EveryFileAcknowledged ==
    /\ \A n \in 1..MaxFiles : (n \in t_put) ~> (n \in t_acked)
    /\ (t_main_pc = "fill") ~> (t_main_pc = "exit")
    /\ []ProcessedOnce

====
